---- MODULE Spec2Model ----
(***************************************************************************)
(* Model of the media-processing service: the batch endpoints              *)
(* POST /audio/peaks/batch and POST /image/batch (manifest validation,     *)
(* temporary files, variant loop, streaming zip archive, error paths), the *)
(* single-file endpoints POST /audio/peaks and POST /image/convert (query  *)
(* schemas, sample-count resolution, temp-file cleanup, error bodies) and  *)
(* the subprocess wrappers extractPeaksWithAudiowaveform and               *)
(* getAudioDurationSeconds (timeout / 'error' / 'close' race), and, each   *)
(* on its own, temp-file naming, detectAudioFormat, resamplePeaks and the  *)
(* peak normalisation, the archive entry paths, the app's middleware       *)
(* chain, the global error handler and the shutdown on SIGTERM / SIGINT.   *)
(***************************************************************************)
EXTENDS Integers, Sequences, FiniteSets, TLC

VARIABLES
    kind,          \* which batch route handles the request: "audio" | "image"
    debugQuery,    \* req.query.debug
    manifestRaw,   \* the "manifest" form field: [form, outputs]
    files,         \* req.files: sequence of uploaded files
    pc,            \* position of the handler (every value but "done" is an await point)
    res,           \* the HTTP response object
    archive,       \* the archiver instance: [piped, entries, finalized]
    fileContexts,  \* audio.ts fileContexts
    tempFs,        \* temp paths that currently exist on disk
    tempCreated,   \* number of temp files created so far by this request
    oi,            \* index of the manifest output being handled
    vi,            \* index of the variant being handled
    ci,            \* index of the catch block's cleanup loop
    spawned,       \* number of subprocesses / image transforms started
    log,           \* events of the request, in order
    proc,          \* one invocation of a subprocess wrapper
    query,         \* req.query.samples and req.query.samplesPerMinute, as sent
    local,         \* locals of the single-file handlers: samples, durationSeconds,
                   \* tempInputPath
    calls,         \* external calls started by the request, with their arguments
    calc,          \* one evaluation of the sample-count resolution
    unit           \* one part of the service examined on its own: its inputs,
                   \* local state and results

vars == <<kind, debugQuery, manifestRaw, files, pc, res, archive, fileContexts,
          tempFs, tempCreated, oi, vi, ci, spawned, log, proc, query, local, calls, calc,
          unit>>

inputVars == <<kind, debugQuery, manifestRaw, files, query, calc, unit>>

-----------------------------------------------------------------------------
(* Bounds of the model *)

\* env.MAX_AUDIO_BATCH_FILES (configurable, any positive integer)
MAX_AUDIO_BATCH_FILES == 2
\* env.MAX_AUDIO_VARIANTS_PER_FILE
MAX_AUDIO_VARIANTS_PER_FILE == 2
\* env.MAX_IMAGE_BATCH_FILES
MAX_IMAGE_BATCH_FILES == 2
\* env.MAX_IMAGE_VARIANTS_PER_FILE
MAX_IMAGE_VARIANTS_PER_FILE == 2
\* longest manifest.outputs drawn as input
MaxOutputs == 2

\* an absent (undefined) number
Undefined == -1

\* no samples / samplesPerMinute parameter in the query string
NoQuery == [samples |-> "undefined", samplesPerMinute |-> "undefined"]

\* the single-file handler's locals before they are assigned
NoLocal == [samples |-> Undefined, durationSeconds |-> Undefined, tempInputPath |-> 0]

\* no sample-count resolution evaluated
NoCalc == [samples |-> Undefined, samplesPerMinute |-> Undefined, durationSeconds |-> 0,
           single |-> Undefined, batch |-> Undefined]

\* no part of the service is examined on its own
NoUnit == [name |-> "none"]

SeqUpTo(S, n) == UNION { [1..k -> S] : k \in 0..n }
NonEmptySeqUpTo(S, n) == UNION { [1..k -> S] : k \in 1..n }

-----------------------------------------------------------------------------
(* Pure helpers *)

DEBUG_LEVELS == {"debug", "info", "warn", "error", "crit"}

\* String.prototype.toLowerCase on the query values the model draws
ToLowerCase(s) ==
    CASE s = "DEBUG" -> "debug"
      [] s = "Info"  -> "info"
      [] OTHER       -> s

\* the DebugLevel, or "undefined"
parseDebugLevel(value) ==
    IF value = "" THEN "undefined"
    ELSE LET normalized == ToLowerCase(value)
         IN IF normalized \in DEBUG_LEVELS THEN normalized ELSE "undefined"

\* the allowlist without the container the sniffer knows as webm
SUPPORTED_AUDIO_FORMATS_NoWebm == {"mp3", "wav", "ogg", "flac", "aac", "m4a"}

SUPPORTED_AUDIO_FORMATS == {"mp3", "wav", "ogg", "flac", "aac", "m4a", "webm"}

validateAudioExtension(ext) == ext \in SUPPORTED_AUDIO_FORMATS

\* buffer[i] of a Node Buffer (0-based); undefined past the end
At(buffer, i) == IF i + 1 <= Len(buffer) THEN buffer[i + 1] ELSE Undefined

\* buffer.toString('ascii', start, end) as character codes: decoding as 'ascii'
\* clears the top bit of every byte
toStringAscii(buffer, start, end) ==
    [i \in 1..(end - start) |-> At(buffer, start + i - 1) % 128]

\* the signature check rejecting every upload whose tag is off the allowlist,
\* the unknown tag included
SnifferRejects_Unknown(detectedFormat) == ~validateAudioExtension(detectedFormat)

\* detectedFormat && !validateAudioExtension(detectedFormat)
SnifferRejects(detectedFormat) ==
    detectedFormat # "null" /\ ~validateAudioExtension(detectedFormat)

\* the format tag, or "null"
detectAudioFormat(buffer) ==
    IF Len(buffer) < 4 THEN "null"
    ELSE IF /\ At(buffer, 0) = 82 /\ At(buffer, 1) = 73
            /\ At(buffer, 2) = 70 /\ At(buffer, 3) = 70
            /\ Len(buffer) >= 12
            /\ At(buffer, 8) = 87 /\ At(buffer, 9) = 65
            /\ At(buffer, 10) = 86 /\ At(buffer, 11) = 69
         THEN "wav"
    ELSE IF /\ At(buffer, 0) = 79 /\ At(buffer, 1) = 103
            /\ At(buffer, 2) = 103 /\ At(buffer, 3) = 83
         THEN "ogg"
    ELSE IF /\ At(buffer, 0) = 102 /\ At(buffer, 1) = 76
            /\ At(buffer, 2) = 97 /\ At(buffer, 3) = 67
         THEN "flac"
    ELSE IF /\ At(buffer, 0) = 26 /\ At(buffer, 1) = 69
            /\ At(buffer, 2) = 223 /\ At(buffer, 3) = 163
         THEN "webm"
    ELSE IF /\ Len(buffer) >= 12
            /\ At(buffer, 4) = 102 /\ At(buffer, 5) = 116
            /\ At(buffer, 6) = 121 /\ At(buffer, 7) = 112
            /\ toStringAscii(buffer, 8, 12) \in
                   { <<77, 52, 65, 32>>, <<105, 115, 111, 109>>,
                     <<109, 112, 52, 50>>, <<109, 112, 52, 49>> }
         THEN "m4a"
    ELSE IF At(buffer, 0) = 73 /\ At(buffer, 1) = 68 /\ At(buffer, 2) = 51
         THEN "mp3"
    ELSE IF At(buffer, 0) = 255 /\ (At(buffer, 1) \div 16) * 16 = 240
         THEN "aac"
    ELSE IF At(buffer, 0) = 255 /\ (At(buffer, 1) \div 32) * 32 = 224
         THEN "mp3"
    ELSE "null"

\* Math.round((durationSeconds / 60) * samplesPerMinute) for integer arguments
RoundDiv60(n) == (2 * n + 60) \div 120

\* the density taking precedence over an explicit count
ResolveSamples_DensityFirst(variant, durationSeconds) ==
    IF variant.samplesPerMinute # Undefined
    THEN RoundDiv60(durationSeconds * variant.samplesPerMinute)
    ELSE IF variant.samples # Undefined THEN variant.samples
    ELSE RoundDiv60(durationSeconds * 120)

\* variant.samples ?? Math.round((ctx.durationSeconds / 60) * (variant.samplesPerMinute ?? 120))
ResolveSamples(variant, durationSeconds) ==
    LET samplesPerMinute == IF variant.samplesPerMinute = Undefined
                            THEN 120 ELSE variant.samplesPerMinute
    IN IF variant.samples # Undefined THEN variant.samples
       ELSE RoundDiv60(durationSeconds * samplesPerMinute)

-----------------------------------------------------------------------------
(* Request inputs *)

MaxFiles(k) == IF k = "audio" THEN MAX_AUDIO_BATCH_FILES ELSE MAX_IMAGE_BATCH_FILES
MaxVariants(k) == IF k = "audio" THEN MAX_AUDIO_VARIANTS_PER_FILE
                  ELSE MAX_IMAGE_VARIANTS_PER_FILE

\* original file names, as path.parse splits them: <name>.<ext>
Names == { [name |-> "a", ext |-> "wav"], [name |-> "b", ext |-> "txt"] }

\* "RIFF....WAVE"
WavBytes == <<82, 73, 70, 70, 0, 0, 0, 0, 87, 65, 86, 69>>
\* "text"
TxtBytes == <<116, 101, 120, 116>>

\* Express.Multer.File
Uploads == { [originalname |-> [name |-> "a", ext |-> "wav"], buffer |-> WavBytes],
             [originalname |-> [name |-> "a", ext |-> "wav"], buffer |-> TxtBytes],
             [originalname |-> [name |-> "b", ext |-> "txt"], buffer |-> TxtBytes] }

\* audio VariantSpec: explicit samples, or density-derived with the default density
AudioVariants == { [samples |-> 500, samplesPerMinute |-> Undefined],
                   [samples |-> Undefined, samplesPerMinute |-> Undefined] }

ImageVariants == { [format |-> "webp"] }

VariantsOf(k) == IF k = "audio" THEN AudioVariants ELSE ImageVariants

OutputSpecs(k) == [ file : Names,
                    variants : NonEmptySeqUpTo(VariantsOf(k), MaxVariants(k) + 1) ]

\* the manifest form field: absent, not JSON, JSON of the wrong shape, or a manifest
RawManifests(k) ==
    { [form |-> f, outputs |-> <<>>] : f \in {"missing", "badjson", "badschema"} }
    \cup { [form |-> "ok", outputs |-> o] : o \in NonEmptySeqUpTo(OutputSpecs(k), MaxOutputs) }

DebugQueries == {"", "Info", "trace"}

\* durations ffprobe can report, in seconds
Durations == {0, 60, 6000}

debugLevel == parseDebugLevel(debugQuery)
debugInfo == debugLevel # "undefined"
outputs == manifestRaw.outputs

-----------------------------------------------------------------------------
(* Manifest validation: audio.ts 322-379, image.ts 273-334 *)

\* !manifestRaw || typeof manifestRaw !== 'string'
ManifestMissing(raw) == raw.form = "missing"

\* JSON.parse(manifestRaw) throws
JsonParseFails(raw) == raw.form = "badjson"

\* audioBatchManifestSchema / imageBatchManifestSchema .safeParse fails
SchemaFails(raw) == raw.form = "badschema"

TooManyFiles(k, fs) == Len(fs) > MaxFiles(k)

\* the cap tested on the first output only
TooManyVariantsAt_FirstOnly(k, outs) ==
    IF Len(outs[1].variants) > MaxVariants(k) THEN 1 ELSE 0

\* first output whose variants exceed the cap, or 0
TooManyVariantsAt(k, outs) ==
    LET bad == { i \in 1..Len(outs) : Len(outs[i].variants) > MaxVariants(k) }
    IN IF bad = {} THEN 0 ELSE CHOOSE i \in bad : \A j \in bad : i <= j

\* new Map(files.map((f) => [f.originalname, f])).get(name): the last upload of that name
FileMapGet(fs, name) ==
    LET hits == { i \in 1..Len(fs) : fs[i].originalname = name }
    IN fs[CHOOSE i \in hits : \A j \in hits : j <= i]

FileMapHas(fs, name) == \E i \in 1..Len(fs) : fs[i].originalname = name

\* the cross-reference loop left out
MissingFileAt_Skipped(fs, outs) == 0

\* first output whose file is not in fileMap, or 0
MissingFileAt(fs, outs) ==
    LET bad == { i \in 1..Len(outs) : ~FileMapHas(fs, outs[i].file) }
    IN IF bad = {} THEN 0 ELSE CHOOSE i \in bad : \A j \in bad : i <= j

\* the handler's validation prefix: the 400 it answers, or "ok"
GateError(k, raw, fs) ==
    IF ManifestMissing(raw) THEN "missing_manifest"
    ELSE IF JsonParseFails(raw) THEN "invalid_json"
    ELSE IF SchemaFails(raw) THEN "invalid_manifest"
    ELSE IF Len(fs) = 0 THEN "no_files"
    ELSE IF TooManyFiles(k, fs) THEN "too_many_files"
    ELSE IF TooManyVariantsAt(k, raw.outputs) # 0 THEN "too_many_variants"
    ELSE IF MissingFileAt(fs, raw.outputs) # 0 THEN "missing_file"
    ELSE "ok"

\* no file name
NoFile == [name |-> "", ext |-> ""]

\* an error message: its fixed text and the values interpolated into it
Msg(text, file, limit) == [text |-> text, file |-> file, limit |-> limit]

NoMessage == Msg("", NoFile, Undefined)

\* a rejection that names no file
GateMessage_Anonymous(k, raw, fs) == Msg("Manifest references missing file:", NoFile, Undefined)

\* the `error` string of the 400 the validation prefix answers
GateMessage(k, raw, fs) ==
    LET err == GateError(k, raw, fs)
    IN CASE err = "missing_manifest" ->
              Msg("Missing manifest JSON in form field manifest", NoFile, Undefined)
         [] err = "invalid_json" -> Msg("Invalid manifest JSON", NoFile, Undefined)
         [] err = "invalid_manifest" -> Msg("Invalid manifest", NoFile, Undefined)
         [] err = "no_files" ->
              Msg(IF k = "audio" THEN "No audio files provided"
                  ELSE "No image files provided", NoFile, Undefined)
         [] err = "too_many_files" -> Msg("Too many files. Max", NoFile, MaxFiles(k))
         [] err = "too_many_variants" ->
              Msg("Too many variants for ... Max",
                  raw.outputs[TooManyVariantsAt(k, raw.outputs)].file, MaxVariants(k))
         [] err = "missing_file" ->
              Msg("Manifest references missing file:",
                  raw.outputs[MissingFileAt(fs, raw.outputs)].file, Undefined)
         [] OTHER -> NoMessage

-----------------------------------------------------------------------------
(* The handler's state and its synchronous segments.  A segment runs from   *)
(* one await to the next; it is a function from handler state to handler    *)
(* state.                                                                   *)

Cur == [ pc |-> pc, res |-> res, archive |-> archive, fileContexts |-> fileContexts,
         tempFs |-> tempFs, tempCreated |-> tempCreated, oi |-> oi, vi |-> vi,
         ci |-> ci, spawned |-> spawned, log |-> log, local |-> local,
         calls |-> calls ]

\* the handler going on without awaiting the call
Resumed_NotAwaited == Cur

\* the handler state when the call it awaits has settled
Resumed == [Cur EXCEPT !.calls = IF @ = <<>> THEN @ ELSE [@ EXCEPT ![Len(@)].done = TRUE]]

Set(S) ==
    /\ pc' = S.pc
    /\ res' = S.res
    /\ archive' = S.archive
    /\ fileContexts' = S.fileContexts
    /\ tempFs' = S.tempFs
    /\ tempCreated' = S.tempCreated
    /\ oi' = S.oi
    /\ vi' = S.vi
    /\ ci' = S.ci
    /\ spawned' = S.spawned
    /\ log' = S.log
    /\ local' = S.local
    /\ calls' = S.calls

\* an external call (subprocess or transform) is started
Call(S, fn, path, samples) ==
    [S EXCEPT !.spawned = @ + 1,
              !.calls = Append(@, [fn |-> fn, path |-> path, samples |-> samples,
                                   done |-> FALSE, entries |-> Len(S.archive.entries)])]

Log(S, ev) == [S EXCEPT !.log = Append(@, [ev |-> ev, sent |-> S.res.headersSent])]

\* the `debug` member of a JSON body written by a handler: JSON.stringify drops
\* it when debugInfo is undefined; "trace_error" is a trace whose error and
\* durationMs fields were set by the catch block
DebugEcho(info, withError) ==
    IF ~info THEN "absent" ELSE IF withError THEN "trace_error" ELSE "trace"

\* a JSON error body
Body(msg, dbg) == [error |-> msg, debug |-> dbg]

NoBody == Body(NoMessage, "absent")

\* res.status(status).json(body) on a response whose headers are not sent
Json(S, status, ev, body) ==
    [Log(S, ev) EXCEPT !.res = [@ EXCEPT !.statusCode = status, !.headersSent = TRUE,
                                         !.body = "json", !.json = body],
                       !.pc = "done"]

\* globalErrorHandler answering a MulterError: no `debug` member in the body
MulterErrorBody(code) ==
    IF code = "LIMIT_FILE_SIZE"
    THEN Body(Msg("File too large. Maximum size is 50MB.", NoFile, Undefined), "absent")
    ELSE Body(Msg("Upload error: Unexpected field", NoFile, Undefined), "absent")

\* res.set(field, ...) for each field
SetHeaders(S, fields) == [S EXCEPT !.res = [@ EXCEPT !.headers = @ \cup fields]]

\* unlink(path).catch(() => {})
cleanupTempFile(S, path) == [S EXCEPT !.tempFs = @ \ {path}]

\* the catch block without its headersSent test
CatchWrites500_Always(headersSent) == TRUE

\* catch block: if (!res.headersSent)
CatchWrites500(headersSent) == ~headersSent

\* audio.ts 503-510, image.ts 418-425
CatchRespond(S) ==
    IF CatchWrites500(S.res.headersSent)
    THEN Json(S, 500, "catch500",
              Body(Msg(IF kind = "audio" THEN "Failed to process audio batch"
                       ELSE "Failed to process image batch", NoFile, Undefined),
                   DebugEcho(debugInfo, FALSE)))
    ELSE [Log(S, "catch_silent") EXCEPT !.pc = "done"]

\* a throw inside the try block; the audio catch first awaits the cleanup of
\* every fileContext
EnterCatch(S, ev) ==
    LET T == Log(S, ev)
    IN IF kind = "audio" /\ T.fileContexts # <<>>
       THEN [T EXCEPT !.pc = "catch", !.ci = 1]
       ELSE CatchRespond(T)

\* entries queued at the front instead of the back
AppendEntry_Prepend(entries, e) == <<e>> \o entries

\* archive.append(data, { name })
AppendEntry(entries, e) == Append(entries, e)

ArchiveAppend(S, e) == [S EXCEPT !.archive.entries = AppendEntry(@, e)]

ManifestEntry == [name |-> "manifest.json", o |-> 0, v |-> 0]
DebugEntry == [name |-> "debug.json", o |-> 0, v |-> 0]
VariantEntry(o, v) == [name |-> "variant", o |-> o, v |-> v]

\* audio.ts 413-430, image.ts 336-353
BeginArchive(S) ==
    LET H == SetHeaders(S, {"Content-Type", "Content-Disposition", "X-Request-Id"}
                           \cup (IF debugInfo THEN {"X-Debug-Level"} ELSE {}))
    IN ArchiveAppend([H EXCEPT !.archive.piped = TRUE], ManifestEntry)

\* debugSummary is non-null
HasDebugSummary(level) == level # "undefined"

\* audio.ts 491-498, image.ts 409-416: res.set throws once headers are sent
Finish(S) ==
    IF HasDebugSummary(debugLevel)
    THEN IF S.res.headersSent
         THEN EnterCatch(S, "set_header_failed")
         ELSE LET H == SetHeaders(S, {"X-Processing-Time-Ms", "X-Debug-Info"})
                  A == ArchiveAppend(H, DebugEntry)
              IN [A EXCEPT !.archive.finalized = @ + 1, !.pc = "finalize"]
    ELSE [S EXCEPT !.archive.finalized = @ + 1, !.pc = "finalize"]

\* the loop stopping one variant early
VariantLoopDone_OffByOne(v, variants) == v >= Len(variants)

\* for (const variant of item.variants): the loop is over
VariantLoopDone(v, variants) == v > Len(variants)

\* the upper bound left out
SamplesInvalid_NoUpperBound(samples) == samples <= 0

\* samples <= 0 || samples > 10000
SamplesInvalid(samples) == samples <= 0 \/ samples > 10000

\* fileContexts.find((c) => c.inputFile.originalname === item.file): index of the first match
FindCtx(ctxs, file) ==
    LET hits == { i \in 1..Len(ctxs) : ctxs[i].file = file }
    IN IF hits = {} THEN 0 ELSE CHOOSE i \in hits : \A j \in hits : i <= j

-----------------------------------------------------------------------------
(* POST /audio/peaks/batch: synchronous segments *)

\* the fileContext the variant loop uses for output o
CtxOf(S, o) == S.fileContexts[FindCtx(S.fileContexts, outputs[o].file)]

\* audio.ts 450-465: loop test and body of variant v of output S.oi, up to the await
AudioVariantTop(S, v) ==
    LET item == outputs[S.oi]
        ctx == CtxOf(S, S.oi)
    IN IF VariantLoopDone(v, item.variants)
       THEN [S EXCEPT !.pc = "cleanupItem"]
       ELSE IF SamplesInvalid(ResolveSamples(item.variants[v], ctx.durationSeconds))
            THEN [S EXCEPT !.pc = "cleanup400", !.vi = v]
            ELSE Call([S EXCEPT !.pc = "extract", !.vi = v], "extractPeaksWithAudiowaveform",
                      ctx.tempPath,
                      ResolveSamples(item.variants[v], ctx.durationSeconds))

RECURSIVE AudioOutputTop(_, _)
\* audio.ts 436-448 and 491-498: loop test and head of output o, or the end of the loop
AudioOutputTop(S, o) ==
    IF o > Len(outputs) THEN Finish(S)
    ELSE IF FindCtx(S.fileContexts, outputs[o].file) = 0
         THEN AudioOutputTop(S, o + 1)
         ELSE AudioVariantTop([S EXCEPT !.oi = o], 1)

\* audio.ts 381-401: loop test and body for output i, up to await createTempAudioFile
FormatLoopTop(S, i) ==
    IF i > Len(outputs) THEN AudioOutputTop(BeginArchive(S), 1)
    ELSE IF ~FileMapHas(files, outputs[i].file)
         THEN EnterCatch(S, "type_error")
         ELSE LET inputFile == FileMapGet(files, outputs[i].file)
                  ext == inputFile.originalname.ext
                  detectedFormat == detectAudioFormat(inputFile.buffer)
                  unsupported == Body(Msg("Unsupported audio format", NoFile, Undefined),
                                      DebugEcho(debugInfo, FALSE))
              IN IF ext # "" /\ ~validateAudioExtension(ext)
                 THEN Json(S, 400, "format400", unsupported)
                 ELSE IF SnifferRejects(detectedFormat)
                      THEN Json(S, 400, "format400", unsupported)
                      ELSE [S EXCEPT !.pc = "createTemp", !.oi = i]

-----------------------------------------------------------------------------
(* POST /image/batch: synchronous segments *)

RECURSIVE ImageVariantTop(_, _)
\* image.ts 359-382: the two nested loops up to await pipeline.toBuffer()
ImageVariantTop(S, v) ==
    IF S.oi > Len(outputs) THEN Finish(S)
    ELSE IF ~FileMapHas(files, outputs[S.oi].file)
         THEN EnterCatch(S, "type_error")
         ELSE IF VariantLoopDone(v, outputs[S.oi].variants)
              THEN ImageVariantTop([S EXCEPT !.oi = @ + 1], 1)
              ELSE Call([S EXCEPT !.pc = "transform", !.vi = v], "toBuffer", 0, Undefined)

-----------------------------------------------------------------------------
(* extractPeaksWithAudiowaveform / getAudioDurationSeconds: one invocation *)

\* env.AUDIOWAVEFORM_TIMEOUT_MS (default)
AUDIOWAVEFORM_TIMEOUT_MS == 15000
\* env.AUDIO_DURATION_TIMEOUT_MS (default)
AUDIO_DURATION_TIMEOUT_MS == 5000

IdleProc == [ fn |-> "none", settled |-> FALSE, timer |-> "none", delay |-> 0,
              killed |-> FALSE, events |-> <<>>, settlements |-> <<>>,
              promise |-> "pending" ]

\* state right after the Promise executor ran: spawn(...), setTimeout(..., delay)
SpawnedProc(fn) ==
    [ IdleProc EXCEPT !.fn = fn, !.timer = "armed",
                      !.delay = IF fn = "extract" THEN AUDIOWAVEFORM_TIMEOUT_MS
                                ELSE AUDIO_DURATION_TIMEOUT_MS ]

\* the handlers without their settled guard
AlreadySettled_Never(settled) == FALSE

\* if (settled) return;
AlreadySettled(settled) == settled

\* the timer left running
clearTimeout_Noop(timer) == timer

\* clearTimeout(timeout)
clearTimeout(timer) == IF timer = "armed" THEN "cleared" ELSE timer

\* resolve(...) / reject(...): a promise keeps its first settlement
Settle(p, outcome) ==
    [p EXCEPT !.settlements = Append(@, outcome),
              !.promise = IF @ = "pending" THEN outcome.how ELSE @]

\* the setTimeout callback
OnTimeout(p) ==
    IF AlreadySettled(p.settled) THEN p
    ELSE Settle([p EXCEPT !.settled = TRUE, !.killed = TRUE],
                [how |-> "reject_timeout", ms |-> p.delay])

\* proc.on('error', ...)
OnError(p, code) ==
    IF AlreadySettled(p.settled) THEN p
    ELSE Settle([p EXCEPT !.settled = TRUE, !.timer = clearTimeout(@)],
                [how |-> IF p.fn = "extract" /\ code = "ENOENT"
                         THEN "reject_not_found" ELSE "reject_error",
                 ms |-> 0])

\* proc.on('close', ...): stdout is "ok" when it parses (JSON for audiowaveform,
\* a finite number for ffprobe)
OnClose(p, code, stdout) ==
    IF AlreadySettled(p.settled) THEN p
    ELSE Settle([p EXCEPT !.settled = TRUE, !.timer = clearTimeout(@)],
                [how |-> IF code # 0 THEN "reject_exit"
                         ELSE IF stdout # "ok"
                              THEN (IF p.fn = "extract" THEN "reject_parse"
                                    ELSE "reject_invalid_duration")
                              ELSE "resolve",
                 ms |-> 0])

\* exit codes: 0, 1, or null (-1) when the process was ended by a signal
ExitCodes == {0, 1, Undefined}
ErrorCodes == {"ENOENT", "EACCES"}
Stdouts == {"ok", "garbage"}

Emitted(p, name) == \E i \in 1..Len(p.events) : p.events[i].name = name

InitProc ==
    /\ kind = "audio"
    /\ debugQuery = ""
    /\ manifestRaw = [form |-> "missing", outputs |-> <<>>]
    /\ files = <<>>
    /\ pc = "idle"
    /\ res = [statusCode |-> 200, headersSent |-> FALSE, headers |-> {}, body |-> "none",
              json |-> NoBody]
    /\ archive = [piped |-> FALSE, entries |-> <<>>, finalized |-> 0]
    /\ fileContexts = <<>>
    /\ tempFs = {}
    /\ tempCreated = 0
    /\ oi = 0
    /\ vi = 0
    /\ ci = 0
    /\ spawned = 0
    /\ log = <<>>
    /\ proc \in { SpawnedProc(fn) : fn \in {"extract", "probe"} }
    /\ query = NoQuery
    /\ local = NoLocal
    /\ calls = <<>>
    /\ unit = NoUnit
    /\ calc = NoCalc

batchVars == <<kind, debugQuery, manifestRaw, files, pc, res, archive, fileContexts,
               tempFs, tempCreated, oi, vi, ci, spawned, log, query, local, calls, calc,
               unit>>

\* the timer expires: only a timer that is still armed runs its callback
TimeoutFires ==
    /\ proc.timer = "armed"
    /\ proc' = OnTimeout([proc EXCEPT !.timer = "fired",
                                      !.events = Append(@, [name |-> "timeout", code |-> "",
                                                            exit |-> 0, stdout |-> ""])])
    /\ UNCHANGED batchVars

\* the child process emits 'error' (spawn failure, kill failure)
ProcError ==
    /\ proc.fn # "none"
    /\ ~Emitted(proc, "error")
    /\ \E code \in ErrorCodes :
         proc' = OnError([proc EXCEPT !.events = Append(@, [name |-> "error", code |-> code,
                                                           exit |-> 0, stdout |-> ""])],
                         code)
    /\ UNCHANGED batchVars

\* the child process emits 'close'
ProcClose ==
    /\ proc.fn # "none"
    /\ ~Emitted(proc, "close")
    /\ \E code \in ExitCodes, out \in Stdouts :
         proc' = OnClose([proc EXCEPT !.events = Append(@, [name |-> "close", code |-> "",
                                                           exit |-> code, stdout |-> out])],
                         code, out)
    /\ UNCHANGED batchVars

NextProc ==
    \/ TimeoutFires
    \/ ProcError
    \/ ProcClose

SpecProc == InitProc /\ [][NextProc]_vars

-----------------------------------------------------------------------------
(* Actions of one batch request *)

Init ==
    /\ kind \in {"audio", "image"}
    /\ debugQuery \in DebugQueries
    /\ manifestRaw \in RawManifests(kind)
    /\ files \in SeqUpTo(Uploads, MaxFiles(kind) + 1)
    /\ pc = "multer"
    /\ res = [statusCode |-> 200, headersSent |-> FALSE, headers |-> {}, body |-> "none",
              json |-> NoBody]
    /\ archive = [piped |-> FALSE, entries |-> <<>>, finalized |-> 0]
    /\ fileContexts = <<>>
    /\ tempFs = {}
    /\ tempCreated = 0
    /\ oi = 0
    /\ vi = 0
    /\ ci = 0
    /\ spawned = 0
    /\ log = <<>>
    /\ proc = IdleProc
    /\ query = NoQuery
    /\ local = NoLocal
    /\ calls = <<>>
    /\ unit = NoUnit
    /\ calc = NoCalc

\* upload.array('audio', max) / upload.fields([{ name: 'images', maxCount: max }, ...]):
\* too many files raise a MulterError, answered by globalErrorHandler
Multer ==
    /\ pc = "multer"
    /\ IF TooManyFiles(kind, files)
       THEN Set(Json(Cur, 400, "upload_error", MulterErrorBody("LIMIT_UNEXPECTED_FILE")))
       ELSE Set([Cur EXCEPT !.pc = "handler"])
    /\ UNCHANGED <<inputVars, proc>>

\* the handler from its first line to its first await
Validate ==
    /\ pc = "handler"
    /\ LET err == GateError(kind, manifestRaw, files)
       IN IF err # "ok"
          THEN Set(Json(Cur, 400, err, Body(GateMessage(kind, manifestRaw, files),
                                            DebugEcho(debugInfo, FALSE))))
          ELSE IF kind = "audio" THEN Set(FormatLoopTop(Cur, 1))
          ELSE Set(ImageVariantTop([BeginArchive(Cur) EXCEPT !.oi = 1], 1))
    /\ UNCHANGED <<inputVars, proc>>

\* createTempAudioFile resolves; getAudioDurationSeconds spawns ffprobe
CreateTempDone ==
    /\ pc = "createTemp"
    /\ Set(Call([Cur EXCEPT !.tempCreated = @ + 1, !.tempFs = @ \cup {tempCreated + 1},
                            !.pc = "probe"],
                 "getAudioDurationSeconds", tempCreated + 1, Undefined))
    /\ UNCHANGED <<inputVars, proc>>

ProbeResolve ==
    /\ pc = "probe"
    /\ \E d \in Durations :
         LET ctx == [file |-> outputs[oi].file, tempPath |-> tempCreated,
                     durationSeconds |-> d]
         IN Set(FormatLoopTop([Resumed EXCEPT !.fileContexts = Append(@, ctx)], oi + 1))
    /\ UNCHANGED <<inputVars, proc>>

ProbeReject ==
    /\ pc = "probe"
    /\ Set(EnterCatch(Resumed, "probe_failed"))
    /\ UNCHANGED <<inputVars, proc>>

\* audiowaveform can only succeed on an input file that exists
ExtractResolve ==
    /\ pc = "extract"
    /\ CtxOf(Resumed, oi).tempPath \in tempFs
    /\ Set(AudioVariantTop(ArchiveAppend(Resumed, VariantEntry(oi, vi)), vi + 1))
    /\ UNCHANGED <<inputVars, proc>>

ExtractReject ==
    /\ pc = "extract"
    /\ Set(EnterCatch(Resumed, IF CtxOf(Resumed, oi).tempPath \in tempFs
                           THEN "extract_failed" ELSE "extract_failed_no_input"))
    /\ UNCHANGED <<inputVars, proc>>

\* audio.ts 457-462: await cleanupTempFile, then res.status(400).json, which throws
\* once headers are sent
Cleanup400Done ==
    /\ pc = "cleanup400"
    /\ LET S == cleanupTempFile(Cur, CtxOf(Cur, oi).tempPath)
       IN IF S.res.headersSent
          THEN Set(EnterCatch(Log(S, "samples400_attempt"), "headers_sent_error"))
          ELSE Set(Json(S, 400, "samples400",
                        Body(Msg("Invalid samples configuration for",
                                 CtxOf(Cur, oi).file, Undefined),
                             DebugEcho(debugInfo, FALSE))))
    /\ UNCHANGED <<inputVars, proc>>

\* audio.ts 484: await cleanupTempFile(ctx.tempPath), then the next output
CleanupItemDone ==
    /\ pc = "cleanupItem"
    /\ Set(AudioOutputTop(cleanupTempFile(Cur, CtxOf(Cur, oi).tempPath), oi + 1))
    /\ UNCHANGED <<inputVars, proc>>

TransformResolve ==
    /\ pc = "transform"
    /\ Set(ImageVariantTop(ArchiveAppend(Resumed, VariantEntry(oi, vi)), vi + 1))
    /\ UNCHANGED <<inputVars, proc>>

TransformReject ==
    /\ pc = "transform"
    /\ Set(EnterCatch(Resumed, "transform_failed"))
    /\ UNCHANGED <<inputVars, proc>>

\* await archive.finalize() resolves: the whole archive has been written out
FinalizeResolve ==
    /\ pc = "finalize"
    /\ Set([Cur EXCEPT !.res = [@ EXCEPT !.headersSent = TRUE, !.body =
                                   IF @ = "none" THEN "zip" ELSE @],
                       !.pc = "done"])
    /\ UNCHANGED <<inputVars, proc>>

\* the archive emits 'error': the listener answers 500 unless headers are sent,
\* and finalize() rejects into the catch block
FinalizeReject ==
    /\ pc = "finalize"
    /\ LET S == IF ~res.headersSent
                THEN Json(Cur, 500, "zip_error500",
                          Body(Msg("Failed to create zip", NoFile, Undefined),
                               DebugEcho(debugInfo, FALSE)))
                ELSE Log(Cur, "zip_error_silent")
       IN Set(EnterCatch(S, "archive_failed"))
    /\ UNCHANGED <<inputVars, proc>>

\* catch block of the audio handler: one awaited cleanup per fileContext,
\* then the headersSent test
CatchCleanup ==
    /\ pc = "catch"
    /\ LET S == cleanupTempFile(Cur, fileContexts[ci].tempPath)
       IN IF ci = Len(fileContexts) THEN Set(CatchRespond(S))
          ELSE Set([S EXCEPT !.ci = @ + 1])
    /\ UNCHANGED <<inputVars, proc>>

\* archive.on('error', ...) while the handler is suspended between the pipe and
\* archive.finalize(): the listener answers 500 unless headers are sent; the
\* handler is not told and goes on when its await settles
ArchiveError ==
    /\ archive.piped
    /\ pc \in {"extract", "transform", "cleanupItem", "cleanup400"}
    /\ \A i \in 1..Len(log) : log[i].ev \notin {"zip_error500", "zip_error_silent"}
    /\ LET S == IF ~res.headersSent
                THEN [Json(Cur, 500, "zip_error500",
                           Body(Msg("Failed to create zip", NoFile, Undefined),
                                DebugEcho(debugInfo, FALSE)))
                        EXCEPT !.pc = pc]
                ELSE Log(Cur, "zip_error_silent")
       IN Set(S)
    /\ UNCHANGED <<inputVars, proc>>

\* the piped archive writes its first bytes to the response while the handler
\* is suspended: the response headers go out with status 200
ArchiveFlush ==
    /\ archive.piped
    /\ archive.entries # <<>>
    /\ ~res.headersSent
    /\ res' = [res EXCEPT !.headersSent = TRUE, !.body = "zip"]
    /\ UNCHANGED <<inputVars, pc, archive, fileContexts, tempFs, tempCreated,
                   oi, vi, ci, spawned, log, proc, local, calls>>

Next ==
    \/ Multer
    \/ Validate
    \/ CreateTempDone
    \/ ProbeResolve
    \/ ProbeReject
    \/ ExtractResolve
    \/ ExtractReject
    \/ Cleanup400Done
    \/ CleanupItemDone
    \/ TransformResolve
    \/ TransformReject
    \/ FinalizeResolve
    \/ FinalizeReject
    \/ CatchCleanup
    \/ ArchiveError
    \/ ArchiveFlush

Spec == Init /\ [][Next]_vars

-----------------------------------------------------------------------------
(* POST /audio/peaks and POST /image/convert: the query schemas *)

\* most files one single-file request is sent with
MaxSingleUploads == 2

\* Number(value) when value is not a number
NaN == -2

\* z.coerce.number(): Number(value) on the query strings the model draws
ToNumber(raw) ==
    CASE raw = "0" -> 0
      [] raw = "1" -> 1
      [] raw = "120" -> 120
      [] raw = "500" -> 500
      [] raw = "10000" -> 10000
      [] raw = "10001" -> 10001
      [] OTHER -> NaN

\* the schema without its upper limit
CountSchema_NoMax(raw) ==
    IF raw = "undefined" THEN [success |-> TRUE, data |-> Undefined]
    ELSE LET n == ToNumber(raw)
         IN IF n # NaN /\ n >= 1
            THEN [success |-> TRUE, data |-> n]
            ELSE [success |-> FALSE, data |-> Undefined]

\* z.coerce.number().int().min(1).max(10000).optional()
CountSchema(raw) ==
    IF raw = "undefined" THEN [success |-> TRUE, data |-> Undefined]
    ELSE LET n == ToNumber(raw)
         IN IF n # NaN /\ n >= 1 /\ n <= 10000
            THEN [success |-> TRUE, data |-> n]
            ELSE [success |-> FALSE, data |-> Undefined]

\* z.string().transform((v) => v.toLowerCase()).pipe(z.enum(DEBUG_LEVELS)).optional();
\* "" stands for an absent parameter
DebugSchema(raw) ==
    IF raw = "" THEN [success |-> TRUE, data |-> "undefined"]
    ELSE LET v == ToLowerCase(raw)
         IN IF v \in DEBUG_LEVELS THEN [success |-> TRUE, data |-> v]
            ELSE [success |-> FALSE, data |-> "undefined"]

\* audioPeaksQuerySchema.safeParse(req.query)
audioPeaksQuerySchema(q, dbg) ==
    LET samples == CountSchema(q.samples)
        samplesPerMinute == CountSchema(q.samplesPerMinute)
        debug == DebugSchema(dbg)
    IN [success |-> samples.success /\ samplesPerMinute.success /\ debug.success,
        data |-> [samples |-> samples.data, samplesPerMinute |-> samplesPerMinute.data,
                  debug |-> debug.data],
        issues |-> (IF samples.success THEN {} ELSE {"samples"})
                   \cup (IF samplesPerMinute.success THEN {} ELSE {"samplesPerMinute"})
                   \cup (IF debug.success THEN {} ELSE {"debug"})]

\* imageConvertQuerySchema.safeParse(req.query), for requests whose format, width,
\* height and fit are valid
imageConvertQuerySchema(dbg) ==
    LET debug == DebugSchema(dbg)
    IN [success |-> debug.success, data |-> [debug |-> debug.data],
        issues |-> IF debug.success THEN {} ELSE {"debug"}]

\* if (debug) debugInfo = createDebugInfo(debug, requestId)
SingleDebugInfo == DebugSchema(debugQuery).success /\ DebugSchema(debugQuery).data # "undefined"

\* !samples
Falsy(n) == n = Undefined \/ n = 0 \/ n = NaN

\* audio.ts 177-187: let samples = samplesParam; if (!samples) samples =
\* Math.round((durationSeconds / 60) * (samplesPerMinuteParam ?? 120))
PeaksSamples(samplesParam, samplesPerMinuteParam, durationSeconds) ==
    LET samplesPerMinute == IF samplesPerMinuteParam = Undefined THEN 120
                            ELSE samplesPerMinuteParam
    IN IF Falsy(samplesParam) THEN RoundDiv60(durationSeconds * samplesPerMinute)
       ELSE samplesParam

-----------------------------------------------------------------------------
(* POST /audio/peaks and POST /image/convert: one single-file request *)

SingleKinds == {"peaks", "convert"}

\* query strings sent as samples / samplesPerMinute
QuerySamples == {"undefined", "0", "1", "500", "10000", "10001", "abc"}
QueryDensities == {"undefined", "0", "1", "120", "10000"}

\* the handler returns or falls out of its try block: /audio/peaks still awaits
\* its finally block, /image/convert is done
EndSingle(S) == IF kind = "peaks" THEN [S EXCEPT !.pc = "finally"] ELSE [S EXCEPT !.pc = "done"]

\* audio.ts 236-246, part_002 194-205: the catch block sets debugInfo.error and
\* debugInfo.durationMs and answers 500
SingleCatch(S, ev) ==
    EndSingle(Json(Log(S, ev), 500, "catch500",
                   Body(Msg(IF kind = "peaks" THEN "Failed to extract audio peaks"
                            ELSE "Failed to process image", NoFile, Undefined),
                        DebugEcho(SingleDebugInfo, TRUE))))

\* audio.ts 115-174: from the first line of the handler to await createTempAudioFile
PeaksTop(S) ==
    LET queryResult == audioPeaksQuerySchema(query, debugQuery)
    IN IF ~queryResult.success
       THEN EndSingle(Json(S, 400, "invalid_parameters",
                           Body(Msg("Invalid parameters", NoFile, Undefined), "absent")))
       ELSE IF Len(files) = 0
       THEN EndSingle(Json(S, 400, "no_file",
                           Body(Msg("No audio file provided", NoFile, Undefined),
                                DebugEcho(SingleDebugInfo, FALSE))))
       ELSE LET ext == files[1].originalname.ext
                detectedFormat == detectAudioFormat(files[1].buffer)
                unsupported == Body(Msg("Unsupported audio format", NoFile, Undefined),
                                    DebugEcho(SingleDebugInfo, FALSE))
            IN IF ext # "" /\ ~validateAudioExtension(ext)
               THEN EndSingle(Json(S, 400, "format400", unsupported))
               ELSE IF SnifferRejects(detectedFormat)
                    THEN EndSingle(Json(S, 400, "format400", unsupported))
                    ELSE [S EXCEPT !.pc = "writeTemp"]

\* audio.ts 189-204: the two range checks and the call of extractPeaksWithAudiowaveform
PeaksCheck(S) ==
    LET samples == S.local.samples
    IN IF Falsy(samples) \/ samples <= 0
       THEN EndSingle(Json(S, 400, "samples_invalid400",
                           Body(Msg("Invalid samples configuration", NoFile, Undefined),
                                DebugEcho(SingleDebugInfo, FALSE))))
       ELSE IF samples > 10000
       THEN EndSingle(Json(S, 400, "samples_too_large400",
                           Body(Msg("Invalid samples configuration. Must be between 1 and 10000.",
                                    NoFile, Undefined),
                                DebugEcho(SingleDebugInfo, FALSE))))
       ELSE Call([S EXCEPT !.pc = "extractPeaks"], "extractPeaksWithAudiowaveform",
                 S.local.tempInputPath, samples)

\* if (!samples)
NeedsProbe(samples) == Falsy(samples)

\* audio.ts 177-187: after the temp file is written, up to the next await
PeaksAfterTemp(S) ==
    LET data == audioPeaksQuerySchema(query, debugQuery).data
        T == [S EXCEPT !.local.samples = data.samples]
    IN IF NeedsProbe(data.samples)
       THEN Call([T EXCEPT !.pc = "duration"], "getAudioDurationSeconds",
                 S.local.tempInputPath, Undefined)
       ELSE PeaksCheck(T)

\* part_002 111-160: from the first line of the handler to await pipeline.toBuffer()
ConvertTop(S) ==
    LET queryResult == imageConvertQuerySchema(debugQuery)
    IN IF ~queryResult.success
       THEN EndSingle(Json(S, 400, "invalid_parameters",
                           Body(Msg("Invalid parameters", NoFile, Undefined), "absent")))
       ELSE IF Len(files) = 0
       THEN EndSingle(Json(S, 400, "no_file",
                           Body(Msg("No image file provided", NoFile, Undefined),
                                DebugEcho(SingleDebugInfo, FALSE))))
       ELSE Call([S EXCEPT !.pc = "toBuffer"], "toBuffer", 0, Undefined)

\* the rejection of unlink let through
UnlinkRejects_Rethrown(failed) == failed

\* fs.promises.unlink(filePath).catch(() => {}): whether cleanupTempFile rejects
UnlinkRejects(failed) == FALSE

InitSingle ==
    /\ kind \in SingleKinds
    /\ debugQuery \in DebugQueries
    /\ manifestRaw = [form |-> "missing", outputs |-> <<>>]
    /\ files \in SeqUpTo(Uploads \cup {[originalname |-> [name |-> "c", ext |-> ""],
                                         buffer |-> TxtBytes]},
                          MaxSingleUploads)
    /\ query \in IF kind = "peaks"
                 THEN [samples : QuerySamples, samplesPerMinute : QueryDensities]
                 ELSE {NoQuery}
    /\ pc = "upload"
    /\ res = [statusCode |-> 200, headersSent |-> FALSE, headers |-> {}, body |-> "none",
              json |-> NoBody]
    /\ archive = [piped |-> FALSE, entries |-> <<>>, finalized |-> 0]
    /\ fileContexts = <<>>
    /\ tempFs = {}
    /\ tempCreated = 0
    /\ oi = 0
    /\ vi = 0
    /\ ci = 0
    /\ spawned = 0
    /\ log = <<>>
    /\ proc = IdleProc
    /\ local = NoLocal
    /\ calls = <<>>
    /\ unit = NoUnit
    /\ calc = NoCalc

\* upload.single('audio') / upload.single('image'): a second file raises a
\* MulterError, answered by globalErrorHandler
UploadSingle ==
    /\ pc = "upload"
    /\ IF Len(files) > 1
       THEN Set(Json(Cur, 400, "upload_error", MulterErrorBody("LIMIT_UNEXPECTED_FILE")))
       ELSE Set([Cur EXCEPT !.pc = "single"])
    /\ UNCHANGED <<inputVars, proc>>

PeaksHandler ==
    /\ pc = "single"
    /\ kind = "peaks"
    /\ Set(PeaksTop(Cur))
    /\ UNCHANGED <<inputVars, proc>>

ConvertHandler ==
    /\ pc = "single"
    /\ kind = "convert"
    /\ Set(ConvertTop(Cur))
    /\ UNCHANGED <<inputVars, proc>>

\* createTempAudioFile resolves: tempInputPath is assigned
WriteTempResolve ==
    /\ pc = "writeTemp"
    /\ Set(PeaksAfterTemp([Cur EXCEPT !.tempCreated = @ + 1,
                                      !.tempFs = @ \cup {tempCreated + 1},
                                      !.local.tempInputPath = tempCreated + 1]))
    /\ UNCHANGED <<inputVars, proc>>

\* fs.promises.writeFile rejects: tempInputPath stays null
WriteTempReject ==
    /\ pc = "writeTemp"
    /\ Set(SingleCatch(Cur, "write_failed"))
    /\ UNCHANGED <<inputVars, proc>>

DurationResolve ==
    /\ pc = "duration"
    /\ \E d \in Durations :
         LET data == audioPeaksQuerySchema(query, debugQuery).data
         IN Set(PeaksCheck([Resumed EXCEPT !.local.durationSeconds = d,
                                       !.local.samples =
                                           PeaksSamples(data.samples, data.samplesPerMinute, d)]))
    /\ UNCHANGED <<inputVars, proc>>

DurationReject ==
    /\ pc = "duration"
    /\ Set(SingleCatch(Resumed, "probe_failed"))
    /\ UNCHANGED <<inputVars, proc>>

\* audio.ts 206-235: res.json({ peaks, samples: peaks.length, debug: debugInfo })
ExtractPeaksResolve ==
    /\ pc = "extractPeaks"
    /\ local.tempInputPath \in tempFs
    /\ Set(EndSingle(Json(SetHeaders(Resumed, {"X-Request-Id"}
                                         \cup (IF SingleDebugInfo
                                               THEN {"X-Debug-Level", "X-Processing-Time-Ms"}
                                               ELSE {})),
                          200, "peaks200",
                          Body(NoMessage, DebugEcho(SingleDebugInfo, FALSE)))))
    /\ UNCHANGED <<inputVars, proc>>

ExtractPeaksReject ==
    /\ pc = "extractPeaks"
    /\ Set(SingleCatch(Resumed, "extract_failed"))
    /\ UNCHANGED <<inputVars, proc>>

\* finally { await cleanupTempFile(tempInputPath) }: nothing to do for a null
\* path; otherwise unlink succeeds or fails, and a failure is swallowed
Finally ==
    /\ pc = "finally"
    /\ \E failed \in BOOLEAN :
         /\ local.tempInputPath = 0 => ~failed
         /\ LET S == IF local.tempInputPath = 0 THEN Cur
                     ELSE IF failed THEN Log(Cur, "unlink_failed")
                     ELSE Log(cleanupTempFile(Cur, local.tempInputPath), "unlink_ok")
            IN Set([S EXCEPT !.pc = IF UnlinkRejects(failed) THEN "rejected" ELSE "done"])
    /\ UNCHANGED <<inputVars, proc>>

\* part_002 161-193: res.set(...) and res.send(outputBuffer)
ToBufferResolve ==
    /\ pc = "toBuffer"
    /\ LET H == SetHeaders(Resumed, {"X-Request-Id", "Content-Type", "Content-Length"}
                                \cup (IF SingleDebugInfo
                                      THEN {"X-Debug-Level", "X-Processing-Time-Ms",
                                            "X-Debug-Info"}
                                      ELSE {}))
       IN Set([Log(H, "image200") EXCEPT !.res = [@ EXCEPT !.headersSent = TRUE,
                                                          !.body = "image"],
                                        !.pc = "done"])
    /\ UNCHANGED <<inputVars, proc>>

ToBufferReject ==
    /\ pc = "toBuffer"
    /\ Set(SingleCatch(Resumed, "transform_failed"))
    /\ UNCHANGED <<inputVars, proc>>

NextSingle ==
    \/ UploadSingle
    \/ PeaksHandler
    \/ ConvertHandler
    \/ WriteTempResolve
    \/ WriteTempReject
    \/ DurationResolve
    \/ DurationReject
    \/ ExtractPeaksResolve
    \/ ExtractPeaksReject
    \/ Finally
    \/ ToBufferResolve
    \/ ToBufferReject

\* one request to a single-file endpoint
SpecSingle == InitSingle /\ [][NextSingle]_vars

\* one request to any of the four media endpoints
SpecMedia == (Init \/ InitSingle) /\ [][Next \/ NextSingle]_vars

-----------------------------------------------------------------------------
(* The sample-count resolution of both audio endpoints as a function of its   *)
(* inputs                                                                     *)

\* explicit counts the schemas accept, or none
CalcSamples == {Undefined, 1, 500, 10000}
\* densities the schemas accept, or none
CalcDensities == {Undefined, 1, 7, 120, 10000}
\* durations in seconds
CalcDurations == {0, 1, 29, 30, 60, 90, 6000}

InitResolve ==
    /\ kind = "audio"
    /\ debugQuery = ""
    /\ manifestRaw = [form |-> "missing", outputs |-> <<>>]
    /\ files = <<>>
    /\ pc = "idle"
    /\ res = [statusCode |-> 200, headersSent |-> FALSE, headers |-> {}, body |-> "none",
              json |-> NoBody]
    /\ archive = [piped |-> FALSE, entries |-> <<>>, finalized |-> 0]
    /\ fileContexts = <<>>
    /\ tempFs = {}
    /\ tempCreated = 0
    /\ oi = 0
    /\ vi = 0
    /\ ci = 0
    /\ spawned = 0
    /\ log = <<>>
    /\ proc = IdleProc
    /\ query = NoQuery
    /\ local = NoLocal
    /\ calls = <<>>
    /\ unit = NoUnit
    /\ calc \in { [NoCalc EXCEPT !.samples = s, !.samplesPerMinute = m, !.durationSeconds = d] :
                   s \in CalcSamples, m \in CalcDensities, d \in CalcDurations }

\* POST /audio/peaks resolves the count (audio.ts 177-187)
ResolveSingle ==
    /\ calc.single = Undefined
    /\ calc' = [calc EXCEPT !.single =
                    PeaksSamples(calc.samples, calc.samplesPerMinute, calc.durationSeconds)]
    /\ UNCHANGED <<kind, debugQuery, manifestRaw, files, pc, res, archive, fileContexts,
                   tempFs, tempCreated, oi, vi, ci, spawned, log, proc, query, local, calls,
                   unit>>

\* POST /audio/peaks/batch resolves the count of a variant (audio.ts 450-454)
ResolveBatch ==
    /\ calc.batch = Undefined
    /\ calc' = [calc EXCEPT !.batch =
                    ResolveSamples([samples |-> calc.samples,
                                    samplesPerMinute |-> calc.samplesPerMinute],
                                   calc.durationSeconds)]
    /\ UNCHANGED <<kind, debugQuery, manifestRaw, files, pc, res, archive, fileContexts,
                   tempFs, tempCreated, oi, vi, ci, spawned, log, proc, query, local, calls,
                   unit>>

NextResolve ==
    \/ ResolveSingle
    \/ ResolveBatch

SpecResolve == InitResolve /\ [][NextResolve]_vars

-----------------------------------------------------------------------------
(* Parts of the service examined on their own.  The request variables stay  *)
(* at rest; `unit` holds the part's inputs, local state and results.        *)

requestVars == <<kind, debugQuery, manifestRaw, files, pc, res, archive, fileContexts,
                 tempFs, tempCreated, oi, vi, ci, spawned, log, proc, query, local, calls,
                 calc>>

\* no request is being handled
NoRequest ==
    /\ kind = "audio"
    /\ debugQuery = ""
    /\ manifestRaw = [form |-> "missing", outputs |-> <<>>]
    /\ files = <<>>
    /\ pc = "idle"
    /\ res = [statusCode |-> 200, headersSent |-> FALSE, headers |-> {}, body |-> "none",
              json |-> NoBody]
    /\ archive = [piped |-> FALSE, entries |-> <<>>, finalized |-> 0]
    /\ fileContexts = <<>>
    /\ tempFs = {}
    /\ tempCreated = 0
    /\ oi = 0
    /\ vi = 0
    /\ ci = 0
    /\ spawned = 0
    /\ log = <<>>
    /\ proc = IdleProc
    /\ query = NoQuery
    /\ local = NoLocal
    /\ calls = <<>>
    /\ calc = NoCalc

(* createTempAudioFile / cleanupTempFile: two invocations that overlap in   *)
(* time (two requests, or two inputs of one batch) on one temp directory.   *)

\* Date.now() advances at most this far, in milliseconds
MaxClock == 2

\* Math.random().toString(36).slice(2): the digits after "0." in base 36; the
\* value 0 prints as "0", whose slice is empty
RandomSuffixes == {"", "k3v9x2"}

\* overlapping invocations
MaxInvocations == 2

TempInvocations == 1..MaxInvocations

\* part_003 234-236: audio_<Date.now()>_<random suffix>[.<safeExt>] in os.tmpdir();
\* an extension off the allowlist is dropped
tempPath(now, suffix, ext) ==
    <<"audio", now, suffix, IF validateAudioExtension(ext) THEN ext ELSE "">>

\* the extensions are those the routes hand over (the upload's lower-cased
\* extension); the disk holds the files of the temp directory with the
\* invocation whose bytes they contain
TempUnits ==
    { [name |-> "temp", now |-> 0, disk |-> {},
       inv |-> [r \in TempInvocations |->
                    [ext |-> e[r], pc |-> "idle", path |-> <<>>]]] :
      e \in [TempInvocations -> {"wav", "txt", ""}] }

\* a millisecond passes
TempTick ==
    /\ unit.name = "temp"
    /\ unit.now < MaxClock
    /\ unit' = [unit EXCEPT !.now = @ + 1]
    /\ UNCHANGED requestVars

\* createTempAudioFile up to its await (part_003 232-237)
CreateTempCall(r) ==
    /\ unit.name = "temp"
    /\ unit.inv[r].pc = "idle"
    /\ \E suffix \in RandomSuffixes :
          unit' = [unit EXCEPT !.inv[r].pc = "writing",
                               !.inv[r].path = tempPath(unit.now, suffix, unit.inv[r].ext)]
    /\ UNCHANGED requestVars

\* writeFile resolves and createTempAudioFile returns the path (part_003 237-238);
\* writeFile with the default flag 'w' creates the file or replaces it
CreateTempReturn(r) ==
    /\ unit.name = "temp"
    /\ unit.inv[r].pc = "writing"
    /\ unit' = [unit EXCEPT !.inv[r].pc = "inUse",
                            !.disk = { f \in @ : f.path # unit.inv[r].path }
                                     \cup { [path |-> unit.inv[r].path, data |-> r] }]
    /\ UNCHANGED requestVars

\* the caller is done with the file: cleanupTempFile (part_003 241-245);
\* unlink(...).catch(() => {}): a missing file is not an error
CleanupTempCall(r) ==
    /\ unit.name = "temp"
    /\ unit.inv[r].pc = "inUse"
    /\ unit' = [unit EXCEPT !.inv[r].pc = "cleaned",
                            !.disk = { f \in @ : f.path # unit.inv[r].path }]
    /\ UNCHANGED requestVars

(* resamplePeaks and the normalisation of the tool's output.  A peak is a   *)
(* fraction [n, d] with d > 0, standing for n / d.                          *)

Frac(n, d) == [n |-> n, d |-> d]

\* a <= b for fractions
FracLeq(a, b) == a.n * b.d <= b.n * a.d

\* Math.max
MathMax(a, b) == IF FracLeq(a, b) THEN b ELSE a

\* rounding towards zero instead of to the nearest thousandth
Round1000_Truncated(x) == Frac((x.n * 1000) \div x.d, 1000)

\* Math.round(x * 1000) / 1000 for x >= 0: Math.round takes halves upward
Round1000(x) == Frac((2 * x.n * 1000 + x.d) \div (2 * x.d), 1000)

(* Doubles.  peaks.length / targetSamples and i * ratio are IEEE 754 double    *)
(* operations, each rounded to 53 significant bits (nearest, ties to even).   *)
(* A positive double is held as (top + (f1 B^3 + f2 B^2 + f3 B + f4) / B^4)   *)
(* * 2^e with B = 2^13, so that the 52 fraction bits are four limbs.          *)

LimbBase == 8192

RECURSIVE Pow2(_)
Pow2(k) == IF k = 0 THEN 1 ELSE 2 * Pow2(k - 1)

RECURSIVE BitLength(_)
\* the number of binary digits of x
BitLength(x) == IF x = 0 THEN 0 ELSE 1 + BitLength(x \div 2)

\* limbs that outgrew the base carry into the next limb
Carry(e, top, f1, f2, f3, f4) ==
    LET s3 == f3 + (f4 \div LimbBase)
        s2 == f2 + (s3 \div LimbBase)
        s1 == f1 + (s2 \div LimbBase)
    IN [e |-> e, top |-> top + (s1 \div LimbBase), f1 |-> s1 % LimbBase,
        f2 |-> s2 % LimbBase, f3 |-> s3 % LimbBase, f4 |-> f4 % LimbBase]

RECURSIVE Normalize(_, _, _)
\* a / b = (a' / b') * 2^e with 1 <= a' / b' < 2
Normalize(a, b, e) ==
    IF a < b THEN Normalize(2 * a, b, e - 1)
    ELSE IF a >= 2 * b THEN Normalize(a, 2 * b, e + 1)
    ELSE [a |-> a, b |-> b, e |-> e]

\* a / b for integers a, b >= 1: the double nearest to the quotient
DoubleDiv(a, b) ==
    LET m == Normalize(a, b, 0)
        r0 == m.a - m.b
        f1 == (r0 * LimbBase) \div m.b
        r1 == (r0 * LimbBase) % m.b
        f2 == (r1 * LimbBase) \div m.b
        r2 == (r1 * LimbBase) % m.b
        f3 == (r2 * LimbBase) \div m.b
        r3 == (r2 * LimbBase) % m.b
        f4 == (r3 * LimbBase) \div m.b
        r4 == (r3 * LimbBase) % m.b
        up == 2 * r4 > m.b \/ (2 * r4 = m.b /\ f4 % 2 = 1)
    IN Carry(m.e, 1, f1, f2, f3, f4 + (IF up THEN 1 ELSE 0))

\* x rounded to 53 significant bits: the low bits beyond them are dropped,
\* to the nearest, ties to even
Round53(x) ==
    LET t == BitLength(x.top) - 1
        w == x.f3 * LimbBase + x.f4
        rem == w % Pow2(t)
        kept == (w \div Pow2(t)) % 2
        up == 2 * rem > Pow2(t) \/ (2 * rem = Pow2(t) /\ kept = 1)
        w2 == w - rem + (IF up THEN Pow2(t) ELSE 0)
    IN IF t = 0 THEN x
       ELSE Carry(x.e, x.top, x.f1, x.f2, w2 \div LimbBase, w2 % LimbBase)

\* i * x for an integer i >= 1 and a double x
DoubleTimes(i, x) ==
    Round53(Carry(x.e, i * x.top, i * x.f1, i * x.f2, i * x.f3, i * x.f4))

\* Math.floor(x) for a double x > 0
MathFloor(x) ==
    IF x.e >= 0
    THEN x.top * Pow2(x.e) + ((x.f1 * LimbBase + x.f2) \div Pow2(26 - x.e))
    ELSE x.top \div Pow2(-x.e)

\* Math.floor(i * ratio) with ratio = len / n
FloorTimesRatio(i, len, n) ==
    IF i = 0 THEN 0 ELSE MathFloor(DoubleTimes(i, DoubleDiv(len, n)))

RECURSIVE SegmentMax(_, _, _, _)
\* part_003 82-85: for (j = start; j < end && j < peaks.length; j++)
\*                   maxPeak = Math.max(maxPeak, peaks[j])
SegmentMax(peaks, j, end, maxPeak) ==
    IF j < end /\ j < Len(peaks)
    THEN SegmentMax(peaks, j + 1, end, MathMax(maxPeak, peaks[j + 1]))
    ELSE maxPeak

\* resampling that rounds also when the length already matches
resamplePeaks_AlwaysRounded(peaks, targetSamples) ==
    IF Len(peaks) = 0 THEN <<>>
    ELSE [k \in 1..targetSamples |->
             Round1000(peaks[((k - 1) * Len(peaks)) \div targetSamples + 1])]

\* part_003 71-97; ratio = peaks.length / targetSamples is a double, and so is
\* i * ratio
resamplePeaks(peaks, targetSamples) ==
    IF Len(peaks) = 0 THEN <<>>
    ELSE IF Len(peaks) = targetSamples THEN peaks
    ELSE [k \in 1..targetSamples |->
            LET i == k - 1
                start == FloorTimesRatio(i, Len(peaks), targetSamples)
                end == FloorTimesRatio(i + 1, Len(peaks), targetSamples)
                maxPeak == SegmentMax(peaks, start, end, Frac(0, 1))
            IN Round1000(IF start >= Len(peaks) THEN peaks[Len(peaks)]
                         ELSE IF start = end THEN peaks[start + 1]
                         ELSE maxPeak)]

\* Math.abs
Abs(x) == IF x < 0 THEN -x ELSE x

\* the peak of a pair without the clamp to 1
NormalizePeak_Unclamped(lo, hi, bits) ==
    Frac(IF Abs(lo) >= Abs(hi) THEN Abs(lo) ELSE Abs(hi), IF bits = 8 THEN 128 ELSE 32768)

\* part_003 155-163: Math.min(1, Math.max(|min|, |max|) / maxVal) with
\* maxVal = bits === 8 ? 128 : 32768
NormalizePeak(lo, hi, bits) ==
    LET maxVal == IF bits = 8 THEN 128 ELSE 32768
        peak == Frac(IF Abs(lo) >= Abs(hi) THEN Abs(lo) ELSE Abs(hi), maxVal)
    IN IF FracLeq(Frac(1, 1), peak) THEN Frac(1, 1) ELSE peak

\* part_003 154-163: result.bits || 8, and one peak per pair of rawData, a
\* missing second value counting as 0
extractedPeaks(rawData, bits) ==
    [k \in 1..((Len(rawData) + 1) \div 2) |->
        NormalizePeak(rawData[2 * k - 1],
                      IF 2 * k <= Len(rawData) THEN rawData[2 * k] ELSE 0,
                      IF bits = Undefined \/ bits = 0 THEN 8 ELSE bits)]

\* longest source and largest target of the enumerated resamplings
MaxSource == 3
MaxTarget == 4

\* peaks with more than three decimals (0.1234, 0.6789), and 0 and 1
PeakValues == { Frac(0, 1), Frac(1234, 10000), Frac(6789, 10000), Frac(1, 1) }

\* the sources of the unit tests: 0.1 .. 1.0, and 0.12345 0.67891 0.11111 0.99999
\* cut to four decimals
TestPeaks ==
    { [k \in 1..10 |-> Frac(k, 10)],
      <<Frac(1234, 10000), Frac(6789, 10000), Frac(1111, 10000),
        Frac(9999, 10000)>> }

\* longest source of the sources with a single peak
MaxLongSource == 15

\* silence with one peak, at each place of each length above MaxSource
LongPeaks ==
    UNION { { [k \in 1..len |-> IF k = j THEN Frac(6789, 10000) ELSE Frac(0, 1)] :
              j \in 1..len } : len \in (MaxSource + 1)..MaxLongSource }

ResampleUnits ==
    { [name |-> "resample", peaks |-> p, targetSamples |-> n, called |-> FALSE,
       result |-> <<>>] :
      p \in SeqUpTo(PeakValues, MaxSource) \cup TestPeaks, n \in 0..MaxTarget }
    \cup { [name |-> "resample", peaks |-> p, targetSamples |-> n, called |-> FALSE,
            result |-> <<>>] : p \in TestPeaks, n \in {5, 10, 12} }
    \cup { [name |-> "resample", peaks |-> p, targetSamples |-> n, called |-> FALSE,
            result |-> <<>>] : p \in LongPeaks, n \in 1..MaxLongSource }

\* one call of resamplePeaks
ResampleCall ==
    /\ unit.name = "resample"
    /\ ~unit.called
    /\ unit' = [unit EXCEPT !.called = TRUE,
                            !.result = resamplePeaks(unit.peaks, unit.targetSamples)]
    /\ UNCHANGED requestVars

\* longest data array of the tool's output
MaxRawData == 3

\* sample values in the data array: inside the 8-bit range, inside the 16-bit
\* range only, the extremes of both, and a value beyond 16 bits
RawSamples == { -32768, -128, 0, 64, 300, 40000 }

\* the tool's JSON output { bits, data } and the requested count; bits may be
\* missing
ParseUnits ==
    { [name |-> "parse", rawData |-> d, bits |-> b, samples |-> n, called |-> FALSE,
       extracted |-> <<>>, result |-> <<>>] :
      d \in SeqUpTo(RawSamples, MaxRawData), b \in {8, 16, Undefined}, n \in 1..MaxTarget }

\* the try block of the 'close' handler of extractPeaksWithAudiowaveform
\* (part_003 152-167)
ParseCall ==
    /\ unit.name = "parse"
    /\ ~unit.called
    /\ LET extracted == extractedPeaks(unit.rawData, unit.bits)
       IN unit' = [unit EXCEPT !.called = TRUE,
                               !.extracted = extracted,
                               !.result = resamplePeaks(extracted, unit.samples)]
    /\ UNCHANGED requestVars

(* The archive path of one variant.  Strings are sequences of characters.   *)

\* the characters of the class [/\\?%*:|"<>]
UnsafeChars == { "/", "\\", "?", "%", "*", ":", "|", "\"", "<", ">" }

\* a sanitizer that replaces the forward slash only
sanitizeName_SlashOnly(name) ==
    [i \in 1..Len(name) |-> IF name[i] = "/" THEN "_" ELSE name[i]]

\* name.replace(/[/\\?%*:|"<>]/g, '_')  (audio.ts 515-517, part_002 430-432)
sanitizeName(name) ==
    [i \in 1..Len(name) |-> IF name[i] \in UnsafeChars THEN "_" ELSE name[i]]

RECURSIVE Digits(_)
\* `${n}` for a non-negative integer
Digits(n) ==
    LET d == <<"0", "1", "2", "3", "4", "5", "6", "7", "8", "9">>
    IN IF n < 10 THEN <<d[n + 1]>> ELSE Digits(n \div 10) \o <<d[(n % 10) + 1]>>

\* `${x || 'auto'}` for an optional dimension
OrAuto(x) == IF x = Undefined \/ x = 0 THEN <<"a", "u", "t", "o">> ELSE Digits(x)

\* a supplied name getting the extension .json appended
audioEntryPath_JsonAppended(baseName, variantName, samples) ==
    LET defaultName == baseName \o <<"_">> \o Digits(samples)
        fileName == sanitizeName(IF variantName # <<>> THEN variantName ELSE defaultName)
                    \o <<".", "j", "s", "o", "n">>
    IN [fileName |-> fileName,
        entryPath |-> <<"p", "e", "a", "k", "s", "/">> \o baseName \o <<"/">> \o fileName]

\* audio.ts 466-468: defaultName, fileName = sanitizeName(variant.name || defaultName),
\* entryPath = `peaks/${ctx.baseName}/${fileName}`; an absent and an empty name are
\* both falsy
audioEntryPath(baseName, variantName, samples) ==
    LET defaultName == baseName \o <<"_">> \o Digits(samples) \o <<".", "j", "s", "o", "n">>
        fileName == sanitizeName(IF variantName # <<>> THEN variantName ELSE defaultName)
    IN [fileName |-> fileName,
        entryPath |-> <<"p", "e", "a", "k", "s", "/">> \o baseName \o <<"/">> \o fileName]

\* part_002 384-386: the default is <baseName>_<width|auto>x<height|auto>_<format>.<format>
imageEntryPath(baseName, variantName, width, height, format) ==
    LET defaultName == baseName \o <<"_">> \o OrAuto(width) \o <<"x">> \o OrAuto(height)
                       \o <<"_">> \o format \o <<".">> \o format
        fileName == sanitizeName(IF variantName # <<>> THEN variantName ELSE defaultName)
    IN [fileName |-> fileName,
        entryPath |-> <<"i", "m", "a", "g", "e", "s", "/">> \o baseName \o <<"/">>
                      \o fileName]

\* longest enumerated variant name
MaxNameLen == 2

\* characters of the names tried: every character of the class, a letter and a dot
NameChars == UnsafeChars \cup {"a", "."}

\* variant.name: absent, every short name, a name with its own extension, and
\* a/b\c?d
VariantNames ==
    SeqUpTo(NameChars, MaxNameLen)
    \cup { <<"a", ".", "j", "s", "o", "n">>, <<"a", "/", "b", "\\", "c", "?", "d">> }

\* path.parse(originalname).name of the upload
ParsedNames == { <<"a">>, <<"a", "\\", "b">>, <<"c", "?", ">">>, <<".", ".">> }

EntryUnits ==
    { [name |-> "entry", route |-> "audio", parsedName |-> p, variantName |-> v,
       samples |-> n, width |-> Undefined, format |-> <<>>, called |-> FALSE,
       baseName |-> <<>>, fileName |-> <<>>, entryPath |-> <<>>] :
      p \in ParsedNames, v \in VariantNames, n \in {1, 500, 10000} }
    \cup
    { [name |-> "entry", route |-> "image", parsedName |-> p, variantName |-> v,
       samples |-> Undefined, width |-> w, format |-> f, called |-> FALSE,
       baseName |-> <<>>, fileName |-> <<>>, entryPath |-> <<>>] :
      p \in ParsedNames, v \in VariantNames, w \in {Undefined, 100},
      f \in { <<"w", "e", "b", "p">>, <<"j", "p", "g">> } }

\* the path of one artifact: baseName (audio.ts 408, part_002 361) and the
\* entry path (audio.ts 466-468, part_002 384-386)
EntryPathCall ==
    /\ unit.name = "entry"
    /\ ~unit.called
    /\ LET baseName == sanitizeName(unit.parsedName)
           e == IF unit.route = "audio"
                THEN audioEntryPath(baseName, unit.variantName, unit.samples)
                ELSE imageEntryPath(baseName, unit.variantName, unit.width, Undefined,
                                    unit.format)
       IN unit' = [unit EXCEPT !.called = TRUE, !.baseName = baseName,
                               !.fileName = e.fileName, !.entryPath = e.entryPath]
    /\ UNCHANGED requestVars

(* The middleware chain of the app for one request (part_005 34-63).        *)

\* process.env.SERVICE_API_KEY, as characters
SERVICE_API_KEY == <<"k", "e", "y">>

\* a key check that compares the lengths only
apiKeyMiddleware_LengthOnly(apiKey) ==
    IF apiKey = <<"undefined">> THEN 401
    ELSE IF Len(apiKey) # Len(SERVICE_API_KEY) THEN 401
    ELSE 0

\* part_001 12-31: 401, or 0 for next(); a missing header is not a string;
\* otherwise the lengths and then the bytes are compared
apiKeyMiddleware(apiKey) ==
    IF apiKey = <<"undefined">> THEN 401
    ELSE IF \/ Len(apiKey) # Len(SERVICE_API_KEY)
            \/ \E i \in 1..Len(SERVICE_API_KEY) : apiKey[i] # SERVICE_API_KEY[i]
         THEN 401
    ELSE 0

\* part_005 34-63: the layers in mounting order, each with its mount path
AppLayers ==
    << [fn |-> "corsMiddleware", mount |-> <<>>],
       [fn |-> "rateLimitMiddleware", mount |-> <<>>],
       [fn |-> "swaggerUi", mount |-> <<"api-docs">>],
       [fn |-> "apiDocsJson", mount |-> <<>>],
       [fn |-> "healthRouter", mount |-> <<>>],
       [fn |-> "apiKeyMiddleware", mount |-> <<"v1">>],
       [fn |-> "imageRouter", mount |-> <<"v1">>],
       [fn |-> "audioRouter", mount |-> <<"v1">>],
       [fn |-> "odesliRouter", mount |-> <<"v1">>],
       [fn |-> "apiKeyMiddleware", mount |-> <<>>],
       [fn |-> "imageRouter", mount |-> <<>>],
       [fn |-> "audioRouter", mount |-> <<>>],
       [fn |-> "odesliRouter", mount |-> <<>>],
       [fn |-> "notFoundHandler", mount |-> <<>>] >>

\* the status a layer answers with, or 0 when it is skipped or calls next().
\* A layer mounted on a path sees the rest of the path.  cors answers the
\* preflight of an allowed or absent origin itself; the rate limiter answers
\* 429 over the limit; swagger-ui answers everything under its mount; a router
\* answers the methods and paths it declares (a route handler's own status is
\* written 200; GET /health answers 200 or 503)
RunLayer(layer, req) ==
    LET n == Len(layer.mount)
        mounted == Len(req.path) >= n /\ SubSeq(req.path, 1, n) = layer.mount
        sub == SubSeq(req.path, n + 1, Len(req.path))
        fn == layer.fn
    IN IF ~mounted THEN 0
       ELSE IF fn = "corsMiddleware"
            THEN IF req.method = "OPTIONS" /\ req.origin # "disallowed" THEN 204 ELSE 0
       ELSE IF fn = "rateLimitMiddleware" THEN IF req.overLimit THEN 429 ELSE 0
       ELSE IF fn = "swaggerUi" THEN 200
       ELSE IF fn = "apiDocsJson"
            THEN IF req.method = "GET" /\ sub = <<"api-docs.json">> THEN 200 ELSE 0
       ELSE IF fn = "healthRouter"
            THEN IF req.method = "GET" /\ sub = <<"health">> THEN 200 ELSE 0
       ELSE IF fn = "apiKeyMiddleware" THEN apiKeyMiddleware(req.apiKey)
       ELSE IF fn = "imageRouter"
            THEN IF req.method = "POST"
                    /\ sub \in { <<"image", "convert">>, <<"image", "batch">> }
                 THEN 200 ELSE 0
       ELSE IF fn = "audioRouter"
            THEN IF req.method = "POST"
                    /\ sub \in { <<"audio", "peaks">>, <<"audio", "peaks", "batch">> }
                 THEN 200 ELSE 0
       ELSE IF fn = "odesliRouter"
            THEN IF req.method = "GET" /\ sub = <<"odesli">> THEN 200 ELSE 0
       ELSE 404

\* request paths, as segments: every route under /v1 and on the root, the
\* open paths, and paths no route declares
RequestPaths ==
    LET routes == { <<"image", "convert">>, <<"image", "batch">>, <<"audio", "peaks">>,
                    <<"audio", "peaks", "batch">>, <<"odesli">>, <<"nope">>, <<"health">>,
                    <<>> }
    IN routes \cup { <<"v1">> \o r : r \in routes }
       \cup { <<"api-docs">>, <<"api-docs", "index.html">>, <<"api-docs.json">> }

\* req.headers['x-api-key']: missing, the key, a key of another length, a key
\* of the same length, the key with a character appended
ApiKeys == { <<"undefined">>, SERVICE_API_KEY, <<"w", "r", "o", "n", "g">>,
             <<"k", "e", "x">>, SERVICE_API_KEY \o <<"y">> }

HttpUnits ==
    { [name |-> "http",
       req |-> [method |-> m, path |-> p, apiKey |-> k, origin |-> o, overLimit |-> l],
       layer |-> 1, status |-> 0, answeredBy |-> "none"] :
      m \in {"GET", "POST", "OPTIONS"}, p \in RequestPaths, k \in ApiKeys,
      o \in {"none", "allowed", "disallowed"}, l \in BOOLEAN }

\* the request is handed to the next layer of the chain
HttpLayer ==
    /\ unit.name = "http"
    /\ unit.status = 0
    /\ LET layer == AppLayers[unit.layer]
           status == RunLayer(layer, unit.req)
       IN unit' = IF status = 0 THEN [unit EXCEPT !.layer = @ + 1]
                  ELSE [unit EXCEPT !.status = status, !.answeredBy = layer.fn]
    /\ UNCHANGED requestVars

(* globalErrorHandler on one error (errorHandler.ts 9-35).                  *)

\* the errors handed to next(err): those multer raises for a limit (instances
\* of MulterError, with their code), those its multipart parser raises for a
\* malformed body (plain Error objects passed through by multer), and those a
\* route handler throws, with or without a message
Errors ==
    { [origin |-> "upload", class |-> "MulterError", code |-> c, message |-> "set"] :
      c \in {"LIMIT_FILE_SIZE", "LIMIT_UNEXPECTED_FILE", "LIMIT_FIELD_COUNT"} }
    \cup { [origin |-> "upload", class |-> "Error", code |-> "none", message |-> "set"] }
    \cup { [origin |-> "handler", class |-> "Error", code |-> "none", message |-> m] :
           m \in {"set", ""} }

\* errorHandler.ts 9-35; debug is typeof req.query?.debug
globalErrorHandler(err, debug, nodeEnv) ==
    LET debugRequested == debug = "string"
        includeDetails == nodeEnv # "production" \/ debugRequested
    IN IF err.class = "MulterError"
       THEN [status |-> 400,
             error |-> IF err.code = "LIMIT_FILE_SIZE"
                       THEN "File too large. Maximum size is 50MB."
                       ELSE "Upload error: <message>",
             details |-> "absent"]
       ELSE [status |-> 500, error |-> "Internal server error",
             details |-> IF ~includeDetails THEN "absent"
                         ELSE IF err.message # "" THEN "<message>" ELSE "Unknown error"]

\* the error, the type of req.query.debug (absent, ?debug=x, ?debug=x&debug=y)
\* and NODE_ENV
ErrorUnits ==
    { [name |-> "error", err |-> e, debug |-> d, nodeEnv |-> n, called |-> FALSE,
       res |-> [status |-> 0, error |-> "", details |-> "absent"]] :
      e \in Errors, d \in {"undefined", "string", "object"},
      n \in {"production", "development", "test"} }

\* express hands the error to globalErrorHandler
ErrorCall ==
    /\ unit.name = "error"
    /\ ~unit.called
    /\ unit' = [unit EXCEPT !.called = TRUE,
                            !.res = globalErrorHandler(unit.err, unit.debug, unit.nodeEnv)]
    /\ UNCHANGED requestVars

(* Shutdown of the process started directly (part_005 65-85).               *)

\* signals delivered to one process
MaxSignals == 2

\* the running server; clientsHold: some client keeps a connection open for
\* good, so that server.close never completes
ShutdownUnits ==
    { [name |-> "shutdown", clientsHold |-> h, signals |-> <<>>, closing |-> FALSE,
       timers |-> {}, exitCode |-> Undefined] : h \in BOOLEAN }

\* SIGTERM or SIGINT arrives: shutdown(signal) calls server.close(callback)
\* and arms a timer of 10000 ms (part_005 70-84)
ReceiveSignal ==
    /\ unit.name = "shutdown"
    /\ unit.exitCode = Undefined
    /\ Len(unit.signals) < MaxSignals
    /\ \E signal \in {"SIGTERM", "SIGINT"} :
          unit' = [unit EXCEPT !.signals = Append(@, signal),
                               !.closing = TRUE,
                               !.timers = @ \cup {[id |-> Len(unit.signals) + 1,
                                                   delay |-> 10000]}]
    /\ UNCHANGED requestVars

\* the server has finished closing: the callback of server.close runs
\* process.exit(0) (part_005 72-75)
ServerClosed ==
    /\ unit.name = "shutdown"
    /\ unit.exitCode = Undefined
    /\ unit.closing
    /\ ~unit.clientsHold
    /\ unit' = [unit EXCEPT !.exitCode = 0, !.timers = {}]
    /\ UNCHANGED requestVars

\* a force-shutdown timer that never fires
ForceTimerFires_Never ==
    /\ unit.name = "shutdown"
    /\ unit.exitCode = 7
    /\ UNCHANGED vars

\* a force-shutdown timer fires: process.exit(1) (part_005 76-79)
ForceTimerFires ==
    /\ unit.name = "shutdown"
    /\ unit.exitCode = Undefined
    /\ unit.timers # {}
    /\ unit' = [unit EXCEPT !.exitCode = 1, !.timers = {}]
    /\ UNCHANGED requestVars

(* detectAudioFormat on one buffer *)

\* the first four bytes of the uploads tried: the signatures, near misses, and
\* bytes that belong to no format
DetectHeads ==
    { <<82, 73, 70, 70>>, <<79, 103, 103, 83>>, <<102, 76, 97, 67>>,
      <<26, 69, 223, 163>>, <<73, 68, 51, 4>>, <<255, 241, 0, 0>>,
      <<255, 227, 144, 0>>, <<255, 0, 0, 0>>, <<0, 0, 0, 32>> }

\* bytes 4..7
DetectMiddles == { <<102, 116, 121, 112>>, <<0, 0, 0, 0>> }

\* bytes 8..11: WAVE, the four brands, a brand with the top bit of two bytes
\* set, and zeros
DetectTails ==
    { <<87, 65, 86, 69>>, <<77, 52, 65, 32>>, <<105, 115, 111, 109>>,
      <<109, 112, 52, 50>>, <<109, 112, 52, 49>>, <<205, 52, 193, 32>>,
      <<0, 0, 0, 0>> }

\* uploads are cut at every length up to twelve bytes
DetectUnits ==
    { [name |-> "detect", buffer |-> SubSeq(h \o m \o t, 1, n), tag |-> "pending"] :
      h \in DetectHeads, m \in DetectMiddles, t \in DetectTails, n \in 0..12 }

\* one call of detectAudioFormat (part_003 8-69)
DetectCall ==
    /\ unit.name = "detect"
    /\ unit.tag = "pending"
    /\ unit' = [unit EXCEPT !.tag = detectAudioFormat(unit.buffer)]
    /\ UNCHANGED requestVars

InitUnit ==
    /\ NoRequest
    /\ unit \in TempUnits \cup DetectUnits \cup ResampleUnits \cup ParseUnits
                \cup EntryUnits \cup HttpUnits \cup ErrorUnits \cup ShutdownUnits

NextUnit ==
    \/ ReceiveSignal
    \/ ServerClosed
    \/ ForceTimerFires
    \/ ErrorCall
    \/ HttpLayer
    \/ EntryPathCall
    \/ ResampleCall
    \/ ParseCall
    \/ DetectCall
    \/ TempTick
    \/ \E r \in TempInvocations : CreateTempCall(r)
    \/ \E r \in TempInvocations : CreateTempReturn(r)
    \/ \E r \in TempInvocations : CleanupTempCall(r)

SpecUnit == InitUnit /\ [][NextUnit]_vars

\* the event loop runs a due timer and the callback of a completed close
SpecUnitFair == SpecUnit /\ WF_vars(ForceTimerFires) /\ WF_vars(ServerClosed)

-----------------------------------------------------------------------------
(* Properties *)

IsPrefix(a, b) == Len(a) <= Len(b) /\ SubSeq(b, 1, Len(a)) = a

RECURSIVE VariantEntriesFrom(_, _)
\* the artifacts of outputs o.. in manifest order, each output's in variant order
VariantEntriesFrom(outs, o) ==
    IF o > Len(outs) THEN <<>>
    ELSE [v \in 1..Len(outs[o].variants) |-> VariantEntry(o, v)]
         \o VariantEntriesFrom(outs, o + 1)

RECURSIVE SumVariants(_, _)
SumVariants(outs, o) ==
    IF o > Len(outs) THEN 0 ELSE Len(outs[o].variants) + SumVariants(outs, o + 1)

\* a valid debug level was requested
DebugRequested == ToLowerCase(debugQuery) \in DEBUG_LEVELS

ExpectedEntries ==
    <<ManifestEntry>> \o VariantEntriesFrom(outputs, 1)
    \o (IF DebugRequested THEN <<DebugEntry>> ELSE <<>>)

Logged(ev) == \E i \in 1..Len(log) : log[i].ev = ev

\* every check of the validation gate passes
AllChecksPass ==
    /\ manifestRaw.form = "ok"
    /\ Len(files) >= 1
    /\ Len(files) <= MaxFiles(kind)
    /\ \A i \in 1..Len(outputs) : Len(outputs[i].variants) <= MaxVariants(kind)
    /\ \A i \in 1..Len(outputs) :
         \E j \in 1..Len(files) : files[j].originalname = outputs[i].file

NothingProcessed ==
    /\ spawned = 0
    /\ tempCreated = 0
    /\ ~archive.piped
    /\ archive.entries = <<>>
    /\ archive.finalized = 0
    /\ res.headers = {}

\* C1: in POST /audio/peaks/batch every temporary file created by the request is
\* deleted by the time the handler returns, on every exit path.
C1_TempFilesDeletedOnReturn ==
    (kind = "audio" /\ pc = "done") => tempFs = {}

\* C2: in both batch endpoints all manifest and upload checks complete before
\* anything is processed, any zip header is set or any entry is appended; a
\* request failing one of them is answered 400 as a whole with nothing processed.
C2_ValidationBeforeProcessing ==
    /\ ~NothingProcessed => AllChecksPass
    /\ (~AllChecksPass /\ pc = "done") =>
          res.statusCode = 400 /\ res.body = "json" /\ NothingProcessed

C2_Witness ==
    /\ pc = "done"
    /\ manifestRaw.form = "ok"
    /\ Len(outputs) = 2
    /\ FileMapHas(files, outputs[1].file)
    /\ ~FileMapHas(files, outputs[2].file)
    /\ res.statusCode = 400
    /\ NothingProcessed

\* C3: archive entries are appended in the fixed order manifest.json, then the
\* artifacts in manifest order and variant order, then debug.json, which is
\* appended if and only if a valid debug level was requested.
C3_EntryOrder ==
    /\ IsPrefix(archive.entries, ExpectedEntries)
    /\ archive.finalized > 0 => archive.entries = ExpectedEntries
    /\ (\E i \in 1..Len(archive.entries) : archive.entries[i] = DebugEntry)
          => DebugRequested

C3_Witness ==
    /\ pc = "done"
    /\ archive.finalized = 1
    /\ DebugRequested
    /\ Len(outputs) = 2
    /\ Len(outputs[1].variants) = 2
    /\ archive.entries[Len(archive.entries)] = DebugEntry
    /\ Len(archive.entries) >= 5

\* failures that come from the environment or from a rejected input, not from
\* the handler's own bookkeeping
ExternalFailure ==
    \/ Logged("probe_failed")
    \/ Logged("extract_failed")
    \/ Logged("transform_failed")
    \/ Logged("archive_failed")
    \/ Logged("format400")
    \/ Logged("samples400")
    \/ Logged("samples400_attempt")

\* C4: every valid manifest that references only uploaded files and keeps the
\* variant counts within the limits is accepted and yields a finalized archive of
\* exactly 1 + (sum of variants) + (1 if debug) entries, duplicates of a file and
\* debug requests included.
C4_ArchiveEntryCount ==
    (pc = "done" /\ AllChecksPass /\ ~ExternalFailure) =>
        /\ archive.finalized = 1
        /\ Len(archive.entries) =
              1 + SumVariants(outputs, 1) + (IF DebugRequested THEN 1 ELSE 0)

\* C5: in POST /audio/peaks/batch the 400 for an out-of-range sample count is
\* written only if headers have not been sent; once the archive streams, no error
\* status or body is attempted.
C5_NoSampleErrorAfterHeadersSent ==
    \A i \in 1..Len(log) :
        log[i].ev \in {"samples400", "samples400_attempt"} => ~log[i].sent

ResourceErrorLogged ==
    \/ Logged("probe_failed")
    \/ Logged("extract_failed")
    \/ Logged("extract_failed_no_input")
    \/ Logged("transform_failed")

VariantFailedOrRejected ==
    \/ Logged("extract_failed")
    \/ Logged("extract_failed_no_input")
    \/ Logged("transform_failed")
    \/ Logged("samples400")
    \/ Logged("samples400_attempt")

\* C7: the archive is finalized at most once, only after manifest.json, every
\* variant artifact and (with debug) debug.json were appended, and never in a
\* request in which a variant failed or was rejected.
C7_FinalizeOnceAfterAllEntries ==
    /\ archive.finalized <= 1
    /\ archive.finalized = 1 =>
          /\ \A k \in 1..Len(ExpectedEntries) :
                \E i \in 1..Len(archive.entries) : archive.entries[i] = ExpectedEntries[k]
          /\ ~VariantFailedOrRejected
    /\ VariantFailedOrRejected => archive.finalized = 0

C7_Witness ==
    /\ pc = "done"
    /\ archive.finalized = 1
    /\ Len(outputs) = 2
    /\ SumVariants(outputs, 1) >= 3
    /\ Len(archive.entries) >= 4

\* the settlements the first event of an invocation may produce
OutcomesOf(name) ==
    CASE name = "timeout" -> {"reject_timeout"}
      [] name = "error"   -> {"reject_not_found", "reject_error"}
      [] name = "close"   -> {"resolve", "reject_exit", "reject_parse",
                              "reject_invalid_duration"}

\* C8: under every interleaving of timeout, 'error' and 'close' the promise is
\* settled exactly once; the first event decides and later ones are no-ops.
C8_SettledExactlyOnce ==
    /\ Len(proc.settlements) <= 1
    /\ proc.events # <<>> =>
          /\ Len(proc.settlements) = 1
          /\ proc.promise = proc.settlements[1].how
          /\ proc.promise \in OutcomesOf(proc.events[1].name)
    /\ proc.events = <<>> => proc.promise = "pending"

C8_Witness ==
    /\ Len(proc.events) = 3
    /\ proc.events[1].name = "timeout"
    /\ Len(proc.settlements) = 1

\* C9: a timeout that fires before 'error' and 'close' kills the subprocess and
\* fails the call with the timeout error of that wrapper's own timeout value; when
\* 'error' or 'close' is handled first the timer is cleared and never kills.
C9_TimeoutKillsElseTimerCleared ==
    /\ (proc.events # <<>> /\ proc.events[1].name = "timeout") =>
          /\ proc.killed
          /\ proc.promise = "reject_timeout"
          /\ proc.settlements[1].ms = (IF proc.fn = "extract"
                                       THEN AUDIOWAVEFORM_TIMEOUT_MS
                                       ELSE AUDIO_DURATION_TIMEOUT_MS)
    /\ (proc.events # <<>> /\ proc.events[1].name \in {"error", "close"}) =>
          /\ proc.timer = "cleared"
          /\ ~proc.killed
          /\ proc.promise # "reject_timeout"

C9_Witness ==
    /\ Len(proc.events) = 2
    /\ proc.events[1].name = "close"
    /\ proc.timer = "cleared"
    /\ ~proc.killed

\* C10: every validation error is reported as HTTP 400 before any temporary file
\* is written, any external process is started and any archive entry is appended.
C10_Validation400BeforeAnyWork ==
    (res.body = "json" /\ res.statusCode = 400) =>
        /\ tempCreated = 0
        /\ spawned = 0
        /\ archive.entries = <<>>

\* output i of the manifest names a file that was not uploaded
Unreferenced(i) == \A j \in 1..Len(files) : files[j].originalname # outputs[i].file

\* the validations that precede the cross-reference loop pass
EarlierChecksPass ==
    /\ manifestRaw.form = "ok"
    /\ Len(files) >= 1
    /\ Len(files) <= MaxFiles(kind)
    /\ \A i \in 1..Len(outputs) : Len(outputs[i].variants) <= MaxVariants(kind)

ExtractCalls == { i \in 1..Len(calls) : calls[i].fn = "extractPeaksWithAudiowaveform" }

\* C12: in POST /audio/peaks and POST /audio/peaks/batch, every invocation of the
\* peak extraction is given a sample count within 1..10000, whether the count
\* was explicit or derived from the duration and samplesPerMinute.
C12_ExtractSamplesInRange ==
    \A i \in ExtractCalls : calls[i].samples >= 1 /\ calls[i].samples <= 10000

C12_Witness ==
    /\ kind = "peaks"
    /\ query.samples = "undefined"
    /\ query.samplesPerMinute = "10000"
    /\ local.durationSeconds = 60
    /\ \E i \in ExtractCalls : calls[i].samples = 10000
    /\ pc = "done"

\* r is x / 60 rounded to the nearest integer, halves upward
IsRoundOfSixtieth(r, x) == 120 * r - 60 <= 2 * x /\ 2 * x < 120 * r + 60

\* the count the claim prescribes for the inputs held in calc
ResolvedAsClaimed(r) ==
    IF calc.samples # Undefined THEN r = calc.samples
    ELSE IF calc.samplesPerMinute # Undefined
         THEN IsRoundOfSixtieth(r, calc.durationSeconds * calc.samplesPerMinute)
         ELSE IsRoundOfSixtieth(r, calc.durationSeconds * 120)

\* C13: the resolved sample count equals the explicit samples whenever it is
\* given, whatever samplesPerMinute is; otherwise it is
\* round(durationSeconds / 60 * samplesPerMinute) with samplesPerMinute 120 when
\* absent, so that 60 s without parameters resolves to 120; in the single-file
\* and in the batch endpoint.
C13_ResolvedSampleCount ==
    /\ calc.single # Undefined => ResolvedAsClaimed(calc.single)
    /\ calc.batch # Undefined => ResolvedAsClaimed(calc.batch)
    /\ (calc.samples = Undefined /\ calc.samplesPerMinute = Undefined
          /\ calc.durationSeconds = 60) =>
            /\ calc.single \in {Undefined, 120}
            /\ calc.batch \in {Undefined, 120}

C13_Witness ==
    /\ calc.samples = 500
    /\ calc.samplesPerMinute = 10000
    /\ calc.durationSeconds = 60
    /\ calc.single = 500
    /\ calc.batch = 500

ProbeCalls == { i \in 1..Len(calls) : calls[i].fn = "getAudioDurationSeconds" }

\* the count of some variant of output o has to be derived from the duration
SomeVariantDerived(o) ==
    \E v \in 1..Len(outputs[o].variants) : outputs[o].variants[v].samples = Undefined

\* C14: the duration probe runs for an input only when a sample count has to be
\* derived from the density: never for a single-file request with an explicit
\* samples, never for a batch output all of whose variants carry an explicit
\* samples.  (The batch handler writes the temp files in manifest order, so the
\* probe of temp file p is the probe of output p.)
C14_ProbeOnlyWhenDerived ==
    \A i \in ProbeCalls :
        /\ kind = "peaks" => query.samples = "undefined"
        /\ kind = "audio" => SomeVariantDerived(calls[i].path)

\* the handler of POST /audio/peaks has completed, by returning or by rejecting
PeaksCompleted == kind = "peaks" /\ pc \in {"done", "rejected"}

\* C15: in POST /audio/peaks, once the temp file of the upload was written, the
\* handler completes only after cleanupTempFile ran on it, on every exit path
\* (success, the 400s for an invalid derived count, a failed probe or
\* extraction): the file is gone unless unlink itself failed, and a failing
\* unlink never makes the handler reject.
C15_SingleTempFileCleaned ==
    /\ kind = "peaks" => pc # "rejected"
    /\ (PeaksCompleted /\ local.tempInputPath # 0) =>
          /\ res.headersSent
          /\ log[Len(log)].ev \in {"unlink_ok", "unlink_failed"}
          /\ log[Len(log)].ev = "unlink_ok" => tempFs = {}
          /\ Logged("peaks200") \/ Logged("samples_invalid400")
               \/ Logged("samples_too_large400") \/ Logged("catch500")

C15_Witness ==
    /\ kind = "peaks"
    /\ pc = "done"
    /\ local.tempInputPath = 1
    /\ tempCreated = 1
    /\ Logged("samples_too_large400")
    /\ Logged("unlink_ok")
    /\ tempFs = {}

\* query strings that denote an integer within 1..10000
CountStringsInRange == {"1", "120", "500", "10000"}

\* the request carries a samples or samplesPerMinute value outside 1..10000
ExplicitCountInvalid ==
    \/ query.samples \notin CountStringsInRange \cup {"undefined"}
    \/ query.samplesPerMinute \notin CountStringsInRange \cup {"undefined"}

\* the request was answered 400 because of its derived sample count
DerivedCountRejected == Logged("samples_invalid400") \/ Logged("samples_too_large400")

\* C16 as stated: whenever POST /audio/peaks rejects a request because of its
\* sample count, explicit or derived, no temporary file has been written and no
\* subprocess has been started.
C16_SampleCountRejectedBeforeIO ==
    (kind = "peaks" /\ ((Logged("invalid_parameters") /\ ExplicitCountInvalid)
                          \/ DerivedCountRejected)) =>
        /\ tempCreated = 0
        /\ spawned = 0

\* C16 amended: POST /audio/peaks validates the samples and samplesPerMinute
\* query values before any I/O (a request with such a value outside 1..10000
\* never writes a temp file nor starts a subprocess and is answered 400); a count
\* derived from the duration is rejected after the temp file was written and the
\* probe ran, and before any peak extraction.
C16_ExplicitCountRejectedBeforeIO ==
    kind = "peaks" =>
        /\ ExplicitCountInvalid =>
              /\ tempCreated = 0
              /\ spawned = 0
              /\ calls = <<>>
              /\ pc = "done" => res.statusCode = 400 /\ res.body = "json"
        /\ DerivedCountRejected =>
              /\ query.samples = "undefined"
              /\ tempCreated = 1
              /\ ProbeCalls # {}
              /\ ExtractCalls = {}
              /\ res.statusCode = 400

C16_Witness ==
    /\ kind = "peaks"
    /\ query.samples = "10001"
    /\ Len(files) = 1
    /\ validateAudioExtension(files[1].originalname.ext)
    /\ pc = "done"
    /\ Logged("invalid_parameters")
    /\ res.statusCode = 400
    /\ tempCreated = 0
    /\ spawned = 0

\* C17: a batch request that uploads more files than the configured maximum is
\* rejected with HTTP 400 whose message names the configured limit, for any file
\* count above the limit.
C17_TooManyFilesNamesLimit ==
    (kind \in {"audio", "image"} /\ pc = "done" /\ Len(files) > MaxFiles(kind)) =>
        /\ res.statusCode = 400
        /\ res.body = "json"
        /\ res.json.error.limit = MaxFiles(kind)

\* output i of the manifest has more variants than the per-file cap
OverCap(i) == Len(outputs[i].variants) > MaxVariants(kind)

InvalidDebugValue == debugQuery # "" /\ ToLowerCase(debugQuery) \notin DEBUG_LEVELS

\* C19: on all four endpoints a debug query value other than debug, info, warn,
\* error, crit is treated as no debug requested (no debug header, no debug trace
\* in a body, no debug.json) and never causes the request to be rejected: a
\* request rejected for its parameters has an invalid samples or
\* samplesPerMinute.
C19_InvalidDebugIgnored ==
    InvalidDebugValue =>
        /\ res.headers \cap {"X-Debug-Level", "X-Debug-Info", "X-Processing-Time-Ms"} = {}
        /\ res.json.debug = "absent"
        /\ \A i \in 1..Len(archive.entries) : archive.entries[i] # DebugEntry
        /\ Logged("invalid_parameters") => ExplicitCountInvalid

\* the response is an error answered with a JSON body
ErrorResponse == res.body = "json" /\ res.statusCode >= 400

\* C20: whenever a valid debug level was requested, every error response body
\* includes the debug trace, and the body of a failure (500) carries a trace
\* whose error and durationMs fields were set at the failure; on the single-file
\* and batch endpoints and for errors answered by the global error handler.
C20_ErrorBodyEchoesDebug ==
    (DebugRequested /\ ErrorResponse) =>
        /\ res.json.debug # "absent"
        /\ res.statusCode = 500 => res.json.debug = "trace_error"

\* calls that were started and have not settled
InFlight == { i \in 1..Len(calls) : ~calls[i].done }

\* calls that produce an artifact
VariantCalls == { i \in 1..Len(calls) :
                    calls[i].fn \in {"extractPeaksWithAudiowaveform", "toBuffer"} }

\* C21: within one batch request at most one probe, peak extraction or image
\* transform is in flight at any moment, and a call starts only after every
\* earlier call has settled and the artifact of every earlier variant call has
\* been appended (the archive then holds manifest.json and those artifacts).
C21_SequentialVariants ==
    /\ Cardinality(InFlight) <= 1
    /\ \A i \in InFlight : i = Len(calls)
    /\ \A i \in VariantCalls :
          calls[i].entries = 1 + Cardinality({ j \in VariantCalls : j < i })
    /\ \A i \in ProbeCalls : calls[i].entries = 0

C21_Witness ==
    /\ kind = "audio"
    /\ pc = "extract"
    /\ Len(calls) = 4
    /\ Cardinality(VariantCalls) = 2
    /\ InFlight = {4}
    /\ calls[4].entries = 2

\* an invocation of createTempAudioFile that has chosen its path and has not
\* yet cleaned it up
TempLive(r) == unit.inv[r].pc \in {"writing", "inUse"}

\* C22: temporary files are uniquely named per invocation: two overlapping
\* invocations never write to the same temporary path, and the file of an
\* invocation that still uses it is on disk with that invocation's own bytes
\* (no other invocation's write replaced it, no other invocation's cleanup
\* deleted it)
C22_TempPathsNeverShared ==
    unit.name = "temp" =>
        /\ \A r, s \in TempInvocations :
              (r # s /\ TempLive(r) /\ TempLive(s)) => unit.inv[r].path # unit.inv[s].path
        /\ \A r \in TempInvocations :
              unit.inv[r].pc = "inUse" =>
                  [path |-> unit.inv[r].path, data |-> r] \in unit.disk

\* the bytes sig stand in the buffer from (0-based) offset at
HasSignature(buffer, at, sig) ==
    /\ Len(buffer) >= at + Len(sig)
    /\ SubSeq(buffer, at + 1, at + Len(sig)) = sig

\* the tag the signature table gives a buffer, in the table's priority
SignatureTag(buffer) ==
    IF Len(buffer) < 4 THEN "null"
    ELSE IF HasSignature(buffer, 0, <<82, 73, 70, 70>>)
            /\ HasSignature(buffer, 8, <<87, 65, 86, 69>>) THEN "wav"
    ELSE IF HasSignature(buffer, 0, <<79, 103, 103, 83>>) THEN "ogg"
    ELSE IF HasSignature(buffer, 0, <<102, 76, 97, 67>>) THEN "flac"
    ELSE IF HasSignature(buffer, 0, <<26, 69, 223, 163>>) THEN "webm"
    ELSE IF HasSignature(buffer, 4, <<102, 116, 121, 112>>)
            /\ \E brand \in { <<77, 52, 65, 32>>, <<105, 115, 111, 109>>,
                               <<109, 112, 52, 50>>, <<109, 112, 52, 49>> } :
                   HasSignature(buffer, 8, brand) THEN "m4a"
    ELSE IF HasSignature(buffer, 0, <<73, 68, 51>>) THEN "mp3"
    ELSE IF HasSignature(buffer, 0, <<255>>) /\ buffer[2] >= 240 THEN "aac"
    ELSE IF HasSignature(buffer, 0, <<255>>) /\ buffer[2] >= 224 THEN "mp3"
    ELSE "null"

\* C23: detectAudioFormat classifies a buffer by the fixed signature table in
\* its priority order (wav, ogg, flac, webm, m4a, ID3 mp3, aac, mp3 sync); a
\* buffer shorter than 4 bytes or matching no signature is unknown
C23_DetectBySignatureTable ==
    (unit.name = "detect" /\ unit.tag # "pending") =>
        unit.tag = SignatureTag(unit.buffer)

\* the uploads whose format an audio handler examines once its earlier
\* validations have passed: the single upload, or the files the manifest names
FormatChecked ==
    IF kind = "peaks"
    THEN IF audioPeaksQuerySchema(query, debugQuery).success /\ Len(files) = 1
         THEN {files[1]} ELSE {}
    ELSE IF kind = "audio" /\ AllChecksPass
    THEN { FileMapGet(files, outputs[i].file) : i \in 1..Len(outputs) }
    ELSE {}

\* the handler has run past its format checks, or has answered
PastFormatChecks ==
    IF kind = "peaks" THEN pc \notin {"upload", "single"}
    ELSE pc \notin {"multer", "handler"}

ExtensionPasses(f) ==
    f.originalname.ext = "" \/ f.originalname.ext \in SUPPORTED_AUDIO_FORMATS

TagUnknown(f) == detectAudioFormat(f.buffer) = "null"

TagOffAllowlist(f) ==
    ~TagUnknown(f) /\ detectAudioFormat(f.buffer) \notin SUPPORTED_AUDIO_FORMATS

\* C24: in both audio endpoints an upload whose detected tag is neither unknown
\* nor on the allowlist is rejected with 400 (no temp file is written for the
\* request), while an unknown tag is never a reason for rejection: the "unsupported
\* format" answer is given only for an extension or a tag off the allowlist, and
\* a request whose examined uploads all have an empty or supported extension and
\* an unknown or supported tag goes on to write its first temp file.
C24_UnknownTagNotRejected ==
    (kind \in {"peaks", "audio"} /\ PastFormatChecks /\ FormatChecked # {}) =>
        /\ (\E f \in FormatChecked : ExtensionPasses(f) /\ TagOffAllowlist(f)) =>
              /\ pc \in {"done", "rejected"} => res.statusCode = 400
              /\ \A i \in 1..Len(calls) : calls[i].fn # "extractPeaksWithAudiowaveform"
        /\ Logged("format400") =>
              /\ res.statusCode = 400
              /\ \E f \in FormatChecked : ~ExtensionPasses(f) \/ TagOffAllowlist(f)
        /\ (\A f \in FormatChecked : ExtensionPasses(f) /\ ~TagOffAllowlist(f)) =>
              /\ ~Logged("format400")
              /\ pc \in {"writeTemp", "createTemp"} \/ tempCreated >= 1
                    \/ Logged("write_failed")

\* an upload named *.wav with no known signature was processed by the batch
\* endpoint, and an upload without extension and without signature by the
\* single-file endpoint
C24_Witness ==
    \/ /\ kind = "audio"
       /\ pc = "done"
       /\ Len(files) = 1
       /\ TagUnknown(files[1])
       /\ files[1].originalname.ext = "wav"
       /\ Len(archive.entries) >= 2
       /\ res.statusCode = 200
    \/ /\ kind = "peaks"
       /\ pc = "done"
       /\ Len(files) = 1
       /\ TagUnknown(files[1])
       /\ files[1].originalname.ext = ""
       /\ Logged("peaks200")

\* equal as numbers
FracEq(a, b) == a.n * b.d = b.n * a.d

\* r is x rounded to three decimals: a whole number of thousandths at most half
\* a thousandth away from x
IsRounded3(r, x) ==
    /\ r.d = 1000
    /\ 2 * Abs(r.n * x.d - 1000 * x.n) <= x.d

\* C25: resamplePeaks(peaks, n) returns peaks unchanged, with no rounding,
\* whenever len(peaks) = n, and the empty sequence for every n when peaks is
\* empty
C25_ResampleIdentityAndEmpty ==
    (unit.name = "resample" /\ unit.called) =>
        /\ Len(unit.peaks) = unit.targetSamples => unit.result = unit.peaks
        /\ unit.peaks = <<>> => unit.result = <<>>

\* four peaks with more than three decimals resampled to four come back as
\* they were; an empty source resampled to three gives nothing
C25_Witness ==
    /\ unit.name = "resample"
    /\ unit.called
    /\ \/ /\ unit.targetSamples = 4
          /\ unit.peaks = <<Frac(1234, 10000), Frac(6789, 10000),
                            Frac(1111, 10000), Frac(9999, 10000)>>
          /\ unit.result = unit.peaks
       \/ /\ unit.peaks = <<>>
          /\ unit.targetSamples = 3
          /\ unit.result = <<>>

\* the source indices of segment i (0-based) for a source of length len and
\* n targets: floor(i * ratio) up to, not including, floor((i + 1) * ratio),
\* with ratio = len / n and the products taken as the doubles they are
SegmentRange(len, n, i) ==
    { j \in 0..(len - 1) :
        FloorTimesRatio(i, len, n) <= j /\ j < FloorTimesRatio(i + 1, len, n) }

InUnitInterval(x) == FracLeq(Frac(0, 1), x) /\ FracLeq(x, Frac(1, 1))

\* C27: every value of the peaks array returned by extractPeaksWithAudiowaveform
\* lies between 0 and 1 inclusive, whatever integers the data array holds and
\* whatever bit depth is declared: each (min, max) pair is reduced to
\* min(1, max(|min|, |max|) / maxScale), maxScale being 128 for 8 bits and 32768
\* otherwise, and resampling does not leave the interval
C27_PeaksInUnitInterval ==
    (unit.name = "parse" /\ unit.called) =>
        /\ \A k \in 1..Len(unit.result) : InUnitInterval(unit.result[k])
        /\ Len(unit.extracted) = (Len(unit.rawData) + 1) \div 2
        /\ \A k \in 1..Len(unit.extracted) :
              LET lo == Abs(unit.rawData[2 * k - 1])
                  hi == IF 2 * k <= Len(unit.rawData) THEN Abs(unit.rawData[2 * k]) ELSE 0
                  top == IF lo >= hi THEN lo ELSE hi
                  maxScale == IF unit.bits \in {8, Undefined} THEN 128 ELSE 32768
              IN /\ InUnitInterval(unit.extracted[k])
                 /\ IF top >= maxScale THEN FracEq(unit.extracted[k], Frac(1, 1))
                    ELSE FracEq(unit.extracted[k], Frac(top, maxScale))

\* a pair beyond the declared 8-bit scale (-128, 300) is clamped to 1 and
\* resampled to two values of 1
C27_Witness ==
    /\ unit.name = "parse"
    /\ unit.called
    /\ unit.bits = 8
    /\ unit.rawData = <<-128, 300>>
    /\ unit.samples = 2
    /\ unit.result = <<Frac(1000, 1000), Frac(1000, 1000)>>

\* the number of path separators in a string
Slashes(str) == Cardinality({ i \in 1..Len(str) : str[i] = "/" })

\* out is src with each character of the class replaced by "_" and nothing
\* else changed
IsSanitized(out, src) ==
    /\ Len(out) = Len(src)
    /\ \A i \in 1..Len(src) :
          out[i] = IF src[i] \in { "/", "\\", "?", "%", "*", ":", "|", "\"", "<", ">" }
                   THEN "_" ELSE src[i]

\* the name the file name is made from: the variant's name, or the default
\* built from the sanitized base name
NameSource ==
    IF unit.variantName # <<>> THEN unit.variantName
    ELSE unit.baseName \o SubSeq(unit.fileName, Len(unit.baseName) + 1, Len(unit.fileName))

\* C28: sanitizeName replaces each of / \ ? % * : | " < > by "_" and changes
\* nothing else (same length, idempotent); it is applied to the base name and
\* to the file name of every archive entry, so every variant's path is
\* <prefix>/<baseName>/<fileName> with no further path separator
C28_SanitizedEntryPath ==
    (unit.name = "entry" /\ unit.called) =>
        /\ IsSanitized(unit.baseName, unit.parsedName)
        /\ IsSanitized(unit.fileName, NameSource)
        /\ sanitizeName(unit.baseName) = unit.baseName
        /\ sanitizeName(unit.fileName) = unit.fileName
        /\ LET prefix == IF unit.route = "audio" THEN <<"p", "e", "a", "k", "s">>
                         ELSE <<"i", "m", "a", "g", "e", "s">>
           IN unit.entryPath = prefix \o <<"/">> \o unit.baseName \o <<"/">> \o unit.fileName
        /\ Slashes(unit.entryPath) = 2

\* the variant name a/b\c?d of an upload named a\b is stored as
\* peaks/a_b/a_b_c_d
C28_Witness ==
    /\ unit.name = "entry"
    /\ unit.called
    /\ unit.route = "audio"
    /\ unit.parsedName = <<"a", "\\", "b">>
    /\ unit.variantName = <<"a", "/", "b", "\\", "c", "?", "d">>
    /\ unit.entryPath = <<"p", "e", "a", "k", "s", "/", "a", "_", "b", "/",
                          "a", "_", "b", "_", "c", "_", "d">>

EndsInJson(str) ==
    Len(str) >= 5 /\ SubSeq(str, Len(str) - 4, Len(str)) = <<".", "j", "s", "o", "n">>

KeyRejected == unit.req.apiKey # SERVICE_API_KEY

\* /health and /api-docs (with /api-docs.json), the paths served without a key
OpenPath ==
    \/ unit.req.path = <<"health">> /\ unit.req.method = "GET"
    \/ unit.req.path = <<"api-docs.json">> /\ unit.req.method = "GET"
    \/ Len(unit.req.path) >= 1 /\ unit.req.path[1] = "api-docs"

\* no route handler and no 404 answers a request without the key
NoHandlerWithoutKey ==
    KeyRejected =>
        unit.answeredBy \notin {"imageRouter", "audioRouter", "odesliRouter",
                                 "notFoundHandler"}

\* C30: no image, audio or odesli route handler (under /v1 or on the root
\* paths) and no 404 answer is reached by a request whose X-Api-Key header is
\* missing or differs from the configured key: such a request is answered 401;
\* /health and /api-docs are served without a key
C30_Unauthorized401 ==
    unit.name = "http" =>
        /\ NoHandlerWithoutKey
        /\ (KeyRejected /\ unit.status # 0 /\ ~OpenPath) => unit.status = 401
        /\ (OpenPath /\ unit.status # 0) =>
              unit.answeredBy \in {"swaggerUi", "apiDocsJson", "healthRouter"}

\* a global middleware answered before the key was looked at: the CORS
\* preflight or the rate limiter
AnsweredGlobally == unit.answeredBy \in {"corsMiddleware", "rateLimitMiddleware"}

\* C30 with the global middleware taken into account: a request without the
\* key reaches no route handler and no 404; unless the CORS preflight (204) or
\* the rate limiter (429) answers it first, it is answered 401 by the key
\* check, and /health and /api-docs are served without a key
C30_Unauthorized401AfterGlobal ==
    unit.name = "http" =>
        /\ NoHandlerWithoutKey
        /\ (KeyRejected /\ unit.status # 0 /\ ~OpenPath /\ ~AnsweredGlobally) =>
              unit.status = 401 /\ unit.answeredBy = "apiKeyMiddleware"
        /\ (OpenPath /\ unit.status # 0 /\ ~AnsweredGlobally) =>
              unit.answeredBy \in {"swaggerUi", "apiDocsJson", "healthRouter"}
        /\ (unit.status = 204) => unit.answeredBy = "corsMiddleware"
        /\ (unit.status = 429) => unit.answeredBy = "rateLimitMiddleware"

\* a request for a path no route declares, with a key of the right length
\* that differs in its last character, is answered 401 by the key check on the
\* root mount
C30_Witness ==
    /\ unit.name = "http"
    /\ unit.req.path = <<"nope">>
    /\ unit.req.apiKey = <<"k", "e", "x">>
    /\ unit.status = 401
    /\ unit.answeredBy = "apiKeyMiddleware"
    /\ unit.layer = 10

\* C31: an upload error raised by the multipart parser is always answered 400
\* and never 500, a file-size violation with the size-limit message and any
\* other one with an "Upload error" message; every other error reaching the
\* global handler is answered 500, with details only outside production or
\* when a debug query parameter is present
C31_UploadErrors400 ==
    (unit.name = "error" /\ unit.called) =>
        /\ unit.err.origin = "upload" =>
              /\ unit.res.status = 400
              /\ unit.res.error = IF unit.err.code = "LIMIT_FILE_SIZE"
                                  THEN "File too large. Maximum size is 50MB."
                                  ELSE "Upload error: <message>"
        /\ unit.err.origin # "upload" =>
              /\ unit.res.status = 500
              /\ unit.res.details # "absent" =>
                    unit.nodeEnv # "production" \/ unit.debug # "undefined"
              /\ (unit.nodeEnv # "production" \/ unit.debug = "string") =>
                    unit.res.details # "absent"

\* the process has received SIGTERM or SIGINT
Signalled == unit.name = "shutdown" /\ unit.signals # <<>>

\* the process has exited with code 0 after the server closed, or with code 1
\* by the force-shutdown timer
Exited ==
    /\ unit.name = "shutdown"
    /\ unit.exitCode \in {0, 1}
    /\ unit.exitCode = 0 => ~unit.clientsHold

\* C32: after the process receives SIGTERM or SIGINT it eventually exits,
\* with code 0 once the server has finished closing or with code 1 when the
\* force-shutdown timer fires first; it never keeps running after the signal
C32_ShutdownExits == Signalled ~> Exited

\* a process whose clients hold their connections was signalled twice and
\* exited with code 1
C32_Witness ==
    /\ unit.name = "shutdown"
    /\ unit.clientsHold
    /\ Len(unit.signals) = 2
    /\ unit.exitCode = 1

\* C33: in POST /audio/peaks/batch, whenever peak extraction is invoked for a
\* manifest output, the temporary file passed to it has been created and is not
\* yet deleted, also when two outputs reference the same uploaded file.
C33_ExtractInputExists ==
    (kind = "audio" /\ pc = "extract") =>
        LET call == calls[Len(calls)]
        IN /\ call.fn = "extractPeaksWithAudiowaveform"
           /\ call.path \in 1..tempCreated
           /\ call.path \in tempFs

\* an error JSON body has been written to the response
ErrorJsonWritten == res.body = "json"

\* C34: a batch response is never a mix of an error JSON body and archive data:
\* once an error JSON body has been written, no archive entry is appended, the
\* archive is not finalized, and no archive bytes reach the same response.
C34_NoArchiveAfterErrorJson ==
    [][ErrorJsonWritten =>
          /\ archive'.entries = archive.entries
          /\ archive'.finalized = archive.finalized
          /\ res'.body = "json"
          /\ res'.json = res.json]_vars

\* archive.pipe(res) was called and an entry has been appended
Streaming == archive.piped /\ archive.entries # <<>>

\* C35: in both batch handlers every response header is set before the first
\* archive byte can reach the response: once the archive is piped and has an
\* entry, no header is set any more, and no res.set fails on sent headers.
C35_HeadersBeforeArchive ==
    [][Streaming =>
          /\ res'.headers = res.headers
          /\ \A i \in 1..Len(log') : log'[i].ev # "set_header_failed"]_vars

\* one batch request whose pending steps (subprocess exits, transforms, file
\* operations, archive writes) are eventually taken
SpecFair == Spec /\ WF_vars(Next)

\* res.json(...) has ended the response, or archive.finalize() resolved and the
\* piped archive has ended it
ResponseEnded ==
    \/ res.body = "json"
    \/ pc = "done" /\ archive.finalized = 1 /\ ~Logged("archive_failed")

\* C36: every batch request eventually has its response ended, provided that
\* subprocesses and the transport make progress: a complete error JSON body is
\* sent or the archive is finalized, also after a failure caught once headers
\* have been sent.
C36_ResponseEventuallyEnded == <>ResponseEnded

\* audio.ts 470: the artifact of one variant, { peaks, samples }, with the
\* resolved sample count of the variant
peaksArtifact(peaks, samples) == [peaks |-> peaks, samples |-> samples]

\* audio.ts 235: the body of the single-file endpoint, { peaks, samples: peaks.length }
peaksBody(peaks) == [peaks |-> peaks, samples |-> Len(peaks)]

\* C37: in every peaks artifact of the audio batch endpoint `samples` equals the
\* length of `peaks`, for any output of the waveform tool, an empty sample
\* array included; likewise in the body of the single-file endpoint.
C37_SamplesIsPeaksLength ==
    (unit.name = "parse" /\ unit.called) =>
        LET artifact == peaksArtifact(unit.result, unit.samples)
            body == peaksBody(unit.result)
        IN /\ artifact.samples = Len(artifact.peaks)
           /\ body.samples = Len(body.peaks)

\* the source indices output i (0-based) is taken from: its segment, or the
\* start index alone when the segment is empty; every index is its own segment
\* when the source is returned as it is
SourceIndicesOf(len, n, i) ==
    IF len = n THEN {i}
    ELSE IF SegmentRange(len, n, i) = {}
         THEN {FloorTimesRatio(i, len, n)} \cap (0..(len - 1))
         ELSE SegmentRange(len, n, i)

\* m is the largest value of the non-empty sequence s
IsMaxOf(m, s) ==
    /\ \E k \in 1..Len(s) : s[k] = m
    /\ \A k \in 1..Len(s) : FracLeq(s[k], m)

\* C38: resamplePeaks never skips a source peak: for a non-empty source and a
\* target n >= 1 each source index lies in the segment of some output index,
\* so the maximum of the output equals the maximum of the source, rounded to
\* three decimals when n differs from the source length.
C38_NoSourcePeakSkipped ==
    (/\ unit.name = "resample" /\ unit.called
     /\ Len(unit.peaks) >= 1 /\ unit.targetSamples >= 1) =>
        LET len == Len(unit.peaks)
            n == unit.targetSamples
        IN /\ \A j \in 0..(len - 1) : \E i \in 0..(n - 1) : j \in SourceIndicesOf(len, n, i)
           /\ Len(unit.result) = n
           /\ \E a \in 1..len, b \in 1..n :
                 /\ IsMaxOf(unit.peaks[a], unit.peaks)
                 /\ IsMaxOf(unit.result[b], unit.result)
                 /\ IF len = n THEN FracEq(unit.result[b], unit.peaks[a])
                    ELSE IsRounded3(unit.result[b], unit.peaks[a])

\* C39: detectAudioFormat returns only null or a member of
\* SUPPORTED_AUDIO_FORMATS, for every buffer, so the check that answers 400 for
\* a detected but unsupported format never rejects.
C39_DetectedTagSupported ==
    (unit.name = "detect" /\ unit.tag # "pending") =>
        /\ unit.tag = "null" \/ unit.tag \in SUPPORTED_AUDIO_FORMATS
        /\ ~SnifferRejects(unit.tag)

\* an EBML header is detected as webm, which the check lets pass
C39_Witness ==
    /\ unit.name = "detect"
    /\ unit.tag = "webm"
    /\ SubSeq(unit.buffer, 1, 4) = <<26, 69, 223, 163>>
    /\ ~SnifferRejects(unit.tag)

====
